---- MODULE Spec2Model ----
(***************************************************************************)
(* Block-template assembly of the Fortuneblock miner: BlockAssembler       *)
(* (CreateNewBlock, addPackageTxs and their helpers), the coinbase         *)
(* composition with the lucky ("fortune") payment, and the mining worker   *)
(* FortuneblockMiner that calls the assembler and searches for a nonce.    *)
(*                                                                         *)
(* One BlockAssembler call is a sequence of steps under cs_main and the    *)
(* mempool lock: CreateNewBlock's prologue, one step per iteration of the  *)
(* selection loop of addPackageTxs, the coinbase composition, and the      *)
(* final TestBlockValidity.  Between calls the environment may change the  *)
(* mempool, the finality/ChainLock oracle and the chain tip.               *)
(*                                                                         *)
(* Spec is the assembler under a changing mempool, with the payout script  *)
(* and the payment schedule of the main network.  ParamSpec calls it with  *)
(* other payout scripts and schedules.  MinerSpec runs it inside the       *)
(* mining worker, whose steps interleave with chain-tip updates.           *)
(***************************************************************************)
EXTENDS Integers, Sequences, FiniteSets, TLC

(***************************************************************************)
(* Bounds of the model                                                     *)
(***************************************************************************)
NumTx == 5        \* transactions that may sit in the mempool
MaxTip == 3       \* highest chain tip height explored

TxIds == 1..NumTx

(***************************************************************************)
(* The candidate transactions.  Every mempool is a subset of TxIds; the    *)
(* isolated figures of an entry (CTxMemPoolEntry) are fixed per id.        *)
(*   2 = Y (100 bytes, fee 500)          1 = X, child of Y (200, 1000)     *)
(*   3 = Z, second child of Y           4 = B, large and sigop heavy       *)
(*   5 = D, low fee rate, prioritised, pays a special-transaction fee      *)
(*   6 = E, child of X                  7 = F, child of B and D            *)
(*   8 = P (100, 1000)   9 = C, child of P (200, 400)                      *)
(*   10 = G, child of C (300, 1500): a chain whose head pays best          *)
(*   above 1000: unrelated transactions of 3500 bytes paying 2 per byte    *)
(***************************************************************************)
TxParents(t) ==
    CASE t = 1 -> {2}
      [] t = 3 -> {2}
      [] t = 6 -> {1}
      [] t = 7 -> {4, 5}
      [] t = 9 -> {8}
      [] t = 10 -> {9}
      [] OTHER -> {}

GetTxSize(t) ==
    CASE t = 1 -> 200
      [] t = 2 -> 100
      [] t = 3 -> 200
      [] t = 4 -> 2000
      [] t = 5 -> 150
      [] t = 6 -> 100
      [] t = 8 -> 100
      [] t = 9 -> 200
      [] t > 1000 -> 3500
      [] OTHER -> 300

GetFee(t) ==
    CASE t = 1 -> 1000
      [] t = 2 -> 500
      [] t = 3 -> 300
      [] t = 4 -> 16000
      [] t = 5 -> 195
      [] t = 6 -> 700
      [] t = 8 -> 1000
      [] t = 9 -> 400
      [] t = 10 -> 1500
      [] t > 1000 -> 7000
      [] OTHER -> 300

\* fee delta of prioritisetransaction: GetModifiedFee = GetFee + delta
FeeDelta(t) == IF t = 5 THEN 30 ELSE 0

GetModifiedFee(t) == GetFee(t) + FeeDelta(t)

GetSigOpCount(t) ==
    CASE t = 1 -> 2
      [] t = 2 -> 1
      [] t = 3 -> 2
      [] t = 4 -> 39895
      [] t = 5 -> 5
      [] OTHER -> 1

GetSpecialTxFee(t) == IF t = 5 THEN 40 ELSE 0

(***************************************************************************)
(* Configuration                                                           *)
(***************************************************************************)
MaxBlockSizeDIP0001 == 2000000
MaxBlockSigOps == MaxBlockSizeDIP0001 \div 50

\* -blockmaxsize values tried, before the constructor clamps them
BlockMaxSizeOptions == {500, 1200, 1500, 4000}
\* -blockmintxfee values tried (satoshis per 1000 bytes)
BlockMinFeeRates == {0, 2000}

\* GetMineableCommitmentTx: how many commitments may be mineable, and their size
QcCounts == {0, 1}
QcTxSize == 200
MAX_CONSECUTIVE_FAILURES == 1000
INT_MAX == 2147483647

Max(a, b) == IF a >= b THEN a ELSE b
Min(a, b) == IF a <= b THEN a ELSE b

\* BlockAssembler::BlockAssembler: limit size to between 1K and MaxBlockSize()-1K
ClampBlockMaxSize(opt) == Max(1000, Min(MaxBlockSizeDIP0001 - 1000, opt))

VARIABLES
    mempool,            \* ids of the entries of the shared mempool (m_mempool.mapTx)
    mapTx,              \* the ancestor state the mempool caches per entry
    ancestorScore,      \* mapTx.get<ancestor_score>(): the entries, best first
    unsafeTx,           \* mempool entries that now fail IsFinalTx or IsTxSafeForMining
    tipHeight,          \* ::ChainActive().Tip()->nHeight
    nBlockMaxSize,      \* BlockAssembler::nBlockMaxSize
    blockMinFeeRate,    \* BlockAssembler::blockMinFeeRate, satoshis per 1000 bytes
    scriptPubKeyIn,     \* the payout script handed to CreateNewBlock, <<>> if empty
    nFortunePayment,    \* consensus.nFortunePayment: rewardStructures and startBlock
    nAdjustedTime,      \* what GetAdjustedTime() returns now
    \* the mining worker (FortuneblockMiner)
    miner,              \* "off", "start", "top", "captured", "search", "found", "poll", "stopped"
    pindexPrev,         \* the tip the worker captured, as a height; -1 before
    hashPrevBlock,      \* pblock->hashPrevBlock of the template searched, as a height
    scriptSigHeight,    \* the height IncrementExtraNonce wrote into the coinbase scriptSig
    nNonce,             \* the low byte of pblock->nNonce
    minerLog,           \* what the worker logged last
    nTime,              \* pblock->nTime of the block being built or searched, 0 if none
    nTimeSeen,          \* the highest adjusted time read so far for this block
    pc,                 \* position of the call
    nHeight,
    inBlock,
    nBlockSize, nBlockSigOps, nBlockTx, nFees, nSpecialTxFees,
    vtx,                \* pblock->vtx: 0 coinbase, -k the k-th commitment, t > 0 entry t
    vTxFees, vSpecialTxFees, vTxSigOps,
    mapModifiedTx,      \* function: tracked entry -> CTxMemPoolModifiedEntry
    failedTx,
    mi,                 \* position of iterator mi in the ancestor_score index
    nConsecutiveFailed,
    vout,               \* coinbaseTx.vout
    merkleRootMNList,   \* "unset", "computed" or "null"
    blockValid,         \* result of TestBlockValidity: "untested", "valid", "invalid"
    auxResult,          \* what the two merkle-root computations of this call returned
    \* history of the call, read by the properties only
    capRejected,        \* candidates rejected by TestPackage in this pass
    finRejected,        \* candidates rejected by TestPackageTransactions in this pass
    prevFinRejected,    \* finRejected of the previous call
    exitReason,         \* how addPackageTxs ended
    lastAccepted,       \* figures of the last package committed, <<>> if none
    cutoffEntry,        \* figures of the package that hit the fee-rate cutoff
    \* GenerateFortuneblocks
    numCores,           \* GetNumCores()
    minerThreads,       \* the static pointer: 0 is NULL, g > 0 is thread group g
    threadGroups,       \* every boost::thread_group created so far
    lastGenerate,       \* arguments and findings of the last call, for the properties
    \* IncrementExtraNonce called by several miner threads
    nExtraNonce,        \* per thread: the local nExtraNonce of FortuneblockMiner
    staticHashPrevBlock, \* the function-static hashPrevBlock, as a height; -1 is null
    nonceCall,          \* per thread: where its call of IncrementExtraNonce stands
    lastNonceCall,      \* per thread: its last finished call, for the properties
    \* CDeterministicMNState: the proof-of-service fields of one masternode
    mnState,            \* nPoSeBanHeight, nPoSePenalty, nPoSeRevivedHeight
    lastBanCall,        \* the last call on it and the state it found, for the properties
    \* CDeterministicMNStateDiff
    diffStates,         \* the two states a and b a diff is built from
    mnStateDiff,        \* CDeterministicMNStateDiff(a, b): fields and state, once built
    diffApplied,        \* the target of ApplyToState before and after, once applied
    \* UpdateLLMQParams
    networkID,          \* Params().NetworkIDString()
    llmqs,              \* consensus.llmqs: the parameter set of each quorum type
    lastCheckMnCount,   \* the masternode count of the last applied update
    lastCheckHeight,    \* the height of the last applied update
    lastCheckedLowLLMQParams, \* the low-params flag of the last applied update
    lastLLMQCall,       \* the arguments of the last call and what it found
    \* CDeterministicMNList: unique properties
    mnUniquePropertyMap, \* property hash -> (proTxHash of the owner, reference count)
    lastUniqueCall      \* the last call on the map: its arguments, the map before, the result

vars == <<mempool, mapTx, ancestorScore, unsafeTx, tipHeight, nBlockMaxSize, blockMinFeeRate,
          scriptPubKeyIn, nFortunePayment, nAdjustedTime, miner, pindexPrev, hashPrevBlock,
          scriptSigHeight, nNonce, minerLog, nTime, nTimeSeen, pc, nHeight,
          inBlock, nBlockSize, nBlockSigOps, nBlockTx, nFees, nSpecialTxFees, vtx,
          vTxFees, vSpecialTxFees, vTxSigOps, mapModifiedTx, failedTx, mi,
          nConsecutiveFailed, vout, merkleRootMNList, blockValid, auxResult,
          capRejected, finRejected, prevFinRejected, exitReason, lastAccepted, cutoffEntry,
          numCores, minerThreads, threadGroups, lastGenerate,
          nExtraNonce, staticHashPrevBlock, nonceCall, lastNonceCall,
          mnState, lastBanCall,
          diffStates, mnStateDiff, diffApplied,
          networkID, llmqs, lastCheckMnCount, lastCheckHeight, lastCheckedLowLLMQParams, lastLLMQCall,
          mnUniquePropertyMap, lastUniqueCall>>

poolVars == <<mempool, mapTx, ancestorScore>>
workerVars == <<miner, pindexPrev, hashPrevBlock, scriptSigHeight, nNonce, minerLog>>
timeVars == <<nTime, nTimeSeen>>
minerVars == <<workerVars, timeVars>>
envVars == <<poolVars, unsafeTx, tipHeight, minerVars>>
\* the state of the thread-group bookkeeping of GenerateFortuneblocks
genVars == <<numCores, minerThreads, threadGroups, lastGenerate>>
\* state of the components block assembly does not touch
\* the extra nonces of the miner threads and the static they share
nonceVars == <<nExtraNonce, staticHashPrevBlock, nonceCall, lastNonceCall>>
\* one masternode state and the last call made on it
banVars == <<mnState, lastBanCall>>
\* two masternode states, their diff and a state the diff was applied to
diffVars == <<diffStates, mnStateDiff, diffApplied>>
\* the quorum parameters and the bookkeeping of their last update
llmqVars == <<networkID, llmqs, lastCheckMnCount, lastCheckHeight,
              lastCheckedLowLLMQParams, lastLLMQCall>>
\* the unique-property map of a masternode list and the last call on it
uniqueVars == <<mnUniquePropertyMap, lastUniqueCall>>
sideVars == <<genVars, nonceVars, banVars, diffVars, llmqVars, uniqueVars>>
\* what a call reads and never writes: options, parameters and the clock
cfgVars == <<nBlockMaxSize, blockMinFeeRate, scriptPubKeyIn, nFortunePayment, nAdjustedTime,
             sideVars>>
blockVars == <<inBlock, nBlockSize, nBlockSigOps, nBlockTx, nFees, nSpecialTxFees,
               vtx, vTxFees, vSpecialTxFees, vTxSigOps>>
loopVars == <<mapModifiedTx, failedTx, mi, nConsecutiveFailed>>
histVars == <<capRejected, finRejected, exitReason, lastAccepted, cutoffEntry>>

(***************************************************************************)
(* Sums over sets and sequences                                            *)
(***************************************************************************)
RECURSIVE SetSum(_, _)
SetSum(S, f) ==
    IF S = {} THEN 0
    ELSE LET x == CHOOSE y \in S : TRUE IN f[x] + SetSum(S \ {x}, f)

RECURSIVE SeqSum(_)
SeqSum(s) == IF s = <<>> THEN 0 ELSE Head(s) + SeqSum(Tail(s))

EmptyMap == [x \in {} |-> 0]

(***************************************************************************)
(* The mempool's view of an entry (CTxMemPool)                             *)
(***************************************************************************)
\* the in-pool ancestors of t in a mempool holding the entries of pool
RECURSIVE AncestorsIn(_, _)
AncestorsIn(pool, t) ==
    LET ps == TxParents(t) \cap pool
    IN  ps \cup UNION {AncestorsIn(pool, p) : p \in ps}

\* CalculateMemPoolAncestors without limits
CalculateMemPoolAncestors(t) == AncestorsIn(mempool, t)

\* CalculateDescendants puts the entry itself into the set
CalculateDescendants(t) ==
    {d \in mempool : d = t \/ t \in CalculateMemPoolAncestors(d)}

\* the ancestor state the mempool keeps for entry t: nSizeWithAncestors,
\* nModFeesWithAncestors, nSigOpCountWithAncestors, nCountWithAncestors
AncestorState(pool, t) ==
    LET w == AncestorsIn(pool, t) \cup {t}
    IN  [nSizeWithAncestors |-> SetSum(w, [x \in w |-> GetTxSize(x)]),
         nModFeesWithAncestors |-> SetSum(w, [x \in w |-> GetModifiedFee(x)]),
         nSigOpCountWithAncestors |-> SetSum(w, [x \in w |-> GetSigOpCount(x)]),
         nCountWithAncestors |-> Cardinality(w)]

MapTxOf(pool) == [t \in pool |-> AncestorState(pool, t)]

GetCountWithAncestors(t) == mapTx[t].nCountWithAncestors

\* CTxMemPoolModifiedEntry(iter): a copy of the entry's ancestor figures
CTxMemPoolModifiedEntry(t) ==
    [nSizeWithAncestors |-> mapTx[t].nSizeWithAncestors,
     nModFeesWithAncestors |-> mapTx[t].nModFeesWithAncestors,
     nSigOpCountWithAncestors |-> mapTx[t].nSigOpCountWithAncestors]

\* a has a strictly higher ancestor fee rate than b (a/b > c/d as a*d > c*b)
CompareTxMemPoolEntryByAncestorFee(a, b) ==
    a.nModFeesWithAncestors * b.nSizeWithAncestors
        > b.nModFeesWithAncestors * a.nSizeWithAncestors

\* order of an ancestor_score index: fee rate descending, equal rates by id
\* (the id stands for the transaction hash)
ScoreBefore(x, ex, y, ey) ==
    \/ CompareTxMemPoolEntryByAncestorFee(ex, ey)
    \/ ~CompareTxMemPoolEntryByAncestorFee(ey, ex) /\ x < y

\* the ancestor_score index over the entries of m
RECURSIVE SortedByAncestorScore(_, _)
SortedByAncestorScore(S, m) ==
    IF S = {} THEN <<>>
    ELSE LET b == CHOOSE x \in S : \A y \in S \ {x} : ScoreBefore(x, m[x], y, m[y])
         IN  <<b>> \o SortedByAncestorScore(S \ {b}, m)

AncestorScoreOf(pool) == SortedByAncestorScore(pool, MapTxOf(pool))

\* CFeeRate::GetFee: the fee of nBytes at nSatoshisPerK
FeeRateGetFee(nSatoshisPerK, nBytes) == (nSatoshisPerK * nBytes) \div 1000

(***************************************************************************)
(* Helpers of the selection loop                                           *)
(***************************************************************************)
\* BlockAssembler::TestPackage
TestPackage_inclusive(packageSize, packageSigOps) ==
    /\ ~(nBlockSize + packageSize > nBlockMaxSize)
    /\ ~(nBlockSigOps + packageSigOps > MaxBlockSigOps)

TestPackage(packageSize, packageSigOps) ==
    /\ ~(nBlockSize + packageSize >= nBlockMaxSize)
    /\ ~(nBlockSigOps + packageSigOps >= MaxBlockSigOps)

\* IsFinalTx(tx, nHeight, nLockTimeCutoff) and IsTxSafeForMining(hash) of one entry
IsFinalAndSafe(t) == t \notin unsafeTx

\* BlockAssembler::TestPackageTransactions
TestPackageTransactions_any(package) == \E it \in package : IsFinalAndSafe(it)

TestPackageTransactions(package) == \A it \in package : IsFinalAndSafe(it)

\* BlockAssembler::onlyUnconfirmed
onlyUnconfirmed_none(testSet) == {}

onlyUnconfirmed(testSet) == {it \in testSet : it \notin inBlock}

\* BlockAssembler::SkipMapTxEntry
SkipMapTxEntry_noInBlock(it) == it \in DOMAIN mapModifiedTx \/ it \in failedTx

SkipMapTxEntry(it) ==
    it \in DOMAIN mapModifiedTx \/ it \in inBlock \/ it \in failedTx

\* CompareTxIterByAncestorCount: fewer ancestors first, equal counts by id
AncestorCountBefore(x, y) ==
    \/ GetCountWithAncestors(x) < GetCountWithAncestors(y)
    \/ GetCountWithAncestors(x) = GetCountWithAncestors(y) /\ x < y

\* BlockAssembler::SortForBlock
RECURSIVE SortForBlock_descending(_)
SortForBlock_descending(package) ==
    IF package = {} THEN <<>>
    ELSE LET b == CHOOSE x \in package :
                     \A y \in package \ {x} : AncestorCountBefore(y, x)
         IN  <<b>> \o SortForBlock_descending(package \ {b})

RECURSIVE SortForBlock(_)
SortForBlock(package) ==
    IF package = {} THEN <<>>
    ELSE LET b == CHOOSE x \in package :
                     \A y \in package \ {x} : AncestorCountBefore(x, y)
         IN  <<b>> \o SortForBlock(package \ {b})

\* update_for_parent_inclusion(it) applied to a tracker entry
update_for_parent_inclusion(e, it) ==
    [nSizeWithAncestors |-> e.nSizeWithAncestors - GetTxSize(it),
     nModFeesWithAncestors |-> e.nModFeesWithAncestors - GetModifiedFee(it),
     nSigOpCountWithAncestors |-> e.nSigOpCountWithAncestors - GetSigOpCount(it)]

\* the body of UpdatePackagesForAdded's inner loop, once per pair (it, desc)
RECURSIVE UpdateForPairs(_, _)
UpdateForPairs(pairs, m) ==
    IF pairs = {} THEN m
    ELSE LET p == CHOOSE q \in pairs : TRUE
             it == p[1]
             desc == p[2]
             old == IF desc \in DOMAIN m THEN m[desc]
                    ELSE CTxMemPoolModifiedEntry(desc)
             new == update_for_parent_inclusion(old, it)
         IN  UpdateForPairs(pairs \ {p},
                 [x \in DOMAIN m \cup {desc} |-> IF x = desc THEN new ELSE m[x]])

\* BlockAssembler::UpdatePackagesForAdded: the tracker after the update
UpdatePackagesForAdded(alreadyAdded, m) ==
    UpdateForPairs({p \in alreadyAdded \X mempool :
                       /\ p[2] \in CalculateDescendants(p[1])
                       /\ p[2] \notin alreadyAdded}, m)

\* mapModifiedTx.erase(...) of a set of entries
EraseFrom(m, S) == [x \in DOMAIN m \ S |-> m[x]]

(***************************************************************************)
(* One iteration of the loop of addPackageTxs: which package is evaluated  *)
(***************************************************************************)
MiAtEnd == mi > Len(ancestorScore)
MiEntry == ancestorScore[mi]

\* modit = mapModifiedTx.get<ancestor_score>().begin()
ModBest ==
    CHOOSE x \in DOMAIN mapModifiedTx :
        \A y \in DOMAIN mapModifiedTx \ {x} :
            ScoreBefore(x, mapModifiedTx[x], y, mapModifiedTx[y])

fUsingModified_mapTxFirst == MiAtEnd

fUsingModified_notLower ==
    IF MiAtEnd THEN TRUE
    ELSE /\ DOMAIN mapModifiedTx # {}
         /\ ~CompareTxMemPoolEntryByAncestorFee(CTxMemPoolModifiedEntry(MiEntry),
                                                mapModifiedTx[ModBest])

fUsingModified ==
    IF MiAtEnd THEN TRUE
    ELSE /\ DOMAIN mapModifiedTx # {}
         /\ CompareTxMemPoolEntryByAncestorFee(mapModifiedTx[ModBest],
                                               CTxMemPoolModifiedEntry(MiEntry))

CandIter == IF fUsingModified THEN ModBest ELSE MiEntry
MiAfterSelect == IF fUsingModified THEN mi ELSE mi + 1

\* packageSize, packageFees, packageSigOps
PackageEntry ==
    IF fUsingModified THEN mapModifiedTx[ModBest]
    ELSE CTxMemPoolModifiedEntry(CandIter)

\* the candidate with its ancestors that are not yet in the block
CandPackage_self == {CandIter}

CandPackage == onlyUnconfirmed(CalculateMemPoolAncestors(CandIter)) \cup {CandIter}

LoopDone == MiAtEnd /\ DOMAIN mapModifiedTx = {}
LoopSkips == ~MiAtEnd /\ SkipMapTxEntry(MiEntry)
Evaluating == pc = "select" /\ ~LoopDone /\ ~LoopSkips

\* packageFees < blockMinFeeRate.GetFee(packageSize)
BelowMinFee_ownFee ==
    GetModifiedFee(CandIter) < FeeRateGetFee(blockMinFeeRate, GetTxSize(CandIter))

BelowMinFee ==
    PackageEntry.nModFeesWithAncestors
        < FeeRateGetFee(blockMinFeeRate, PackageEntry.nSizeWithAncestors)

PackageFits ==
    TestPackage(PackageEntry.nSizeWithAncestors, PackageEntry.nSigOpCountWithAncestors)

\* a failed tracker entry is erased and remembered; a mapTx entry is just passed
TrackerAfterFailure ==
    IF fUsingModified THEN EraseFrom(mapModifiedTx, {CandIter}) ELSE mapModifiedTx
FailedAfterFailure ==
    IF fUsingModified THEN failedTx \cup {CandIter} ELSE failedTx

(***************************************************************************)
(* CreateNewBlock: prologue                                                *)
(***************************************************************************)
\* CTxMemPool::setEntries failedTx: a local of addPackageTxs, empty at entry
InitialFailedTx_kept == prevFinRejected

InitialFailedTx == {}

\* resetBlock(), the dummy coinbase, the mineable quorum commitments, and the
\* declarations that open addPackageTxs
\* pindexPrev->GetMedianTimePast() of the block at height h: the sample chain
\* has it grow by one per block
GetMedianTimePast(h) == h

\* UpdateTime: nNewTime = max(pindexPrev->GetMedianTimePast() + 1, GetAdjustedTime())
nNewTime(prev) == Max(GetMedianTimePast(prev) + 1, nAdjustedTime)

UpdateTimeSets_always(prev) == nNewTime(prev)

\* UpdateTime: pblock->nTime afterwards
UpdateTimeSets(prev) == IF nTime < nNewTime(prev) THEN nNewTime(prev) ELSE nTime

\* UpdateTime: the value returned, nNewTime - nOldTime
UpdateTime(prev) == nNewTime(prev) - nTime

CreateNewBlock(nQc) ==
    /\ pc = "idle"
    /\ nTime' = nAdjustedTime
    /\ nTimeSeen' = nAdjustedTime
    /\ nHeight' = tipHeight + 1
    /\ inBlock' = {}
    /\ nBlockSize' = 1000 + nQc * QcTxSize
    /\ nBlockSigOps' = 100
    /\ nBlockTx' = nQc
    /\ nFees' = 0
    /\ nSpecialTxFees' = 0
    /\ vtx' = <<0>> \o [k \in 1..nQc |-> -k]
    /\ vTxFees' = <<-1>> \o [k \in 1..nQc |-> 0]
    /\ vSpecialTxFees' = <<-1>> \o [k \in 1..nQc |-> 0]
    /\ vTxSigOps' = <<-1>> \o [k \in 1..nQc |-> 0]
    /\ mapModifiedTx' = UpdatePackagesForAdded({}, EmptyMap)
    /\ failedTx' = InitialFailedTx
    /\ mi' = 1
    /\ nConsecutiveFailed' = 0
    /\ pc' = "select"
    /\ capRejected' = {}
    /\ finRejected' = {}
    /\ exitReason' = "running"
    /\ lastAccepted' = <<>>
    /\ cutoffEntry' = <<>>
    /\ UNCHANGED <<poolVars, unsafeTx, tipHeight, workerVars, cfgVars, vout, merkleRootMNList,
                   blockValid, auxResult, prevFinRejected>>

(***************************************************************************)
(* addPackageTxs: one action per way an iteration of the loop can go       *)
(***************************************************************************)
\* while (mi != end || !mapModifiedTx.empty()) is false
LoopExhausted ==
    /\ pc = "select"
    /\ LoopDone
    /\ pc' = "coinbase"
    /\ exitReason' = "exhausted"
    /\ UNCHANGED <<envVars, cfgVars, nHeight, blockVars, loopVars, vout, merkleRootMNList,
                   blockValid, auxResult, capRejected, finRejected, prevFinRejected, lastAccepted,
                   cutoffEntry>>

SkipStaleEntry_stay ==
    /\ pc = "select"
    /\ LoopSkips
    /\ mi' = mi
    /\ UNCHANGED <<envVars, cfgVars, pc, nHeight, blockVars, mapModifiedTx, failedTx,
                   nConsecutiveFailed, vout, merkleRootMNList, blockValid, auxResult, histVars,
                   prevFinRejected>>

\* SkipMapTxEntry: ++mi; continue
SkipStaleEntry ==
    /\ pc = "select"
    /\ LoopSkips
    /\ mi' = mi + 1
    /\ UNCHANGED <<envVars, cfgVars, pc, nHeight, blockVars, mapModifiedTx, failedTx,
                   nConsecutiveFailed, vout, merkleRootMNList, blockValid, auxResult, histVars,
                   prevFinRejected>>

\* packageFees < blockMinFeeRate.GetFee(packageSize): return
FeeRateCutoff ==
    /\ Evaluating
    /\ BelowMinFee
    /\ mi' = MiAfterSelect
    /\ pc' = "coinbase"
    /\ exitReason' = "cutoff"
    /\ cutoffEntry' = PackageEntry
    /\ UNCHANGED <<envVars, cfgVars, nHeight, blockVars, mapModifiedTx, failedTx,
                   nConsecutiveFailed, vout, merkleRootMNList, blockValid, auxResult, capRejected,
                   finRejected, prevFinRejected, lastAccepted>>

CapacityFailure_anyCount ==
    /\ Evaluating
    /\ ~BelowMinFee
    /\ ~PackageFits
    /\ mi' = MiAfterSelect
    /\ mapModifiedTx' = TrackerAfterFailure
    /\ failedTx' = FailedAfterFailure
    /\ nConsecutiveFailed' = nConsecutiveFailed + 1
    /\ capRejected' = capRejected \cup {CandIter}
    /\ IF nBlockSize > nBlockMaxSize - 1000
       THEN pc' = "coinbase" /\ exitReason' = "abort"
       ELSE UNCHANGED <<pc, exitReason>>
    /\ UNCHANGED <<envVars, cfgVars, nHeight, blockVars, vout, merkleRootMNList,
                   blockValid, auxResult, finRejected, prevFinRejected, lastAccepted, cutoffEntry>>

\* !TestPackage(packageSize, packageSigOps)
CapacityFailure ==
    /\ Evaluating
    /\ ~BelowMinFee
    /\ ~PackageFits
    /\ mi' = MiAfterSelect
    /\ mapModifiedTx' = TrackerAfterFailure
    /\ failedTx' = FailedAfterFailure
    /\ nConsecutiveFailed' = nConsecutiveFailed + 1
    /\ capRejected' = capRejected \cup {CandIter}
    /\ IF /\ nConsecutiveFailed + 1 > MAX_CONSECUTIVE_FAILURES
          /\ nBlockSize > nBlockMaxSize - 1000
       THEN pc' = "coinbase" /\ exitReason' = "abort"
       ELSE UNCHANGED <<pc, exitReason>>
    /\ UNCHANGED <<envVars, cfgVars, nHeight, blockVars, vout, merkleRootMNList,
                   blockValid, auxResult, finRejected, prevFinRejected, lastAccepted, cutoffEntry>>

FinalityFailureLocal_counted ==
    /\ Evaluating
    /\ ~BelowMinFee
    /\ PackageFits
    /\ ~TestPackageTransactions(CandPackage)
    /\ mi' = MiAfterSelect
    /\ mapModifiedTx' = TrackerAfterFailure
    /\ failedTx' = FailedAfterFailure
    /\ finRejected' = finRejected \cup {CandIter}
    /\ nConsecutiveFailed' = nConsecutiveFailed + 1
    /\ UNCHANGED <<mapTx, ancestorScore, unsafeTx, tipHeight, minerVars, cfgVars, pc, nHeight,
                   blockVars, vout, merkleRootMNList, blockValid, auxResult, capRejected,
                   prevFinRejected, exitReason, lastAccepted, cutoffEntry>>

\* !TestPackageTransactions(ancestors); everything but the mempool
FinalityFailureLocal ==
    /\ Evaluating
    /\ ~BelowMinFee
    /\ PackageFits
    /\ ~TestPackageTransactions(CandPackage)
    /\ mi' = MiAfterSelect
    /\ mapModifiedTx' = TrackerAfterFailure
    /\ failedTx' = FailedAfterFailure
    /\ finRejected' = finRejected \cup {CandIter}
    /\ UNCHANGED <<mapTx, ancestorScore, unsafeTx, tipHeight, minerVars, cfgVars, pc, nHeight,
                   blockVars, nConsecutiveFailed, vout, merkleRootMNList, blockValid, auxResult, capRejected,
                   prevFinRejected, exitReason, lastAccepted, cutoffEntry>>

FinalityFailure_erase == FinalityFailureLocal /\ mempool' = mempool \ {CandIter}

FinalityFailure == FinalityFailureLocal /\ mempool' = mempool

Range(s) == {s[i] : i \in 1..Len(s)}

\* AddToBlock(sortedEntries[i]) for i = 0 .. size-1
AddToBlock_noSpecialFee(sortedEntries) ==
    LET n == Len(sortedEntries)
    IN  /\ vtx' = vtx \o sortedEntries
        /\ vTxFees' = vTxFees \o [i \in 1..n |-> GetFee(sortedEntries[i])]
        /\ vSpecialTxFees' = vSpecialTxFees
        /\ vTxSigOps' = vTxSigOps \o [i \in 1..n |-> GetSigOpCount(sortedEntries[i])]
        /\ nBlockSize' = nBlockSize + SeqSum([i \in 1..n |-> GetTxSize(sortedEntries[i])])
        /\ nBlockTx' = nBlockTx + n
        /\ nBlockSigOps' =
               nBlockSigOps + SeqSum([i \in 1..n |-> GetSigOpCount(sortedEntries[i])])
        /\ nFees' = nFees + SeqSum([i \in 1..n |-> GetFee(sortedEntries[i])])
        /\ nSpecialTxFees' =
               nSpecialTxFees + SeqSum([i \in 1..n |-> GetSpecialTxFee(sortedEntries[i])])
        /\ inBlock' = inBlock \cup Range(sortedEntries)

AddToBlock(sortedEntries) ==
    LET n == Len(sortedEntries)
    IN  /\ vtx' = vtx \o sortedEntries
        /\ vTxFees' = vTxFees \o [i \in 1..n |-> GetFee(sortedEntries[i])]
        /\ vSpecialTxFees' =
               vSpecialTxFees \o [i \in 1..n |-> GetSpecialTxFee(sortedEntries[i])]
        /\ vTxSigOps' = vTxSigOps \o [i \in 1..n |-> GetSigOpCount(sortedEntries[i])]
        /\ nBlockSize' = nBlockSize + SeqSum([i \in 1..n |-> GetTxSize(sortedEntries[i])])
        /\ nBlockTx' = nBlockTx + n
        /\ nBlockSigOps' =
               nBlockSigOps + SeqSum([i \in 1..n |-> GetSigOpCount(sortedEntries[i])])
        /\ nFees' = nFees + SeqSum([i \in 1..n |-> GetFee(sortedEntries[i])])
        /\ nSpecialTxFees' =
               nSpecialTxFees + SeqSum([i \in 1..n |-> GetSpecialTxFee(sortedEntries[i])])
        /\ inBlock' = inBlock \cup Range(sortedEntries)

\* the package passed every test and is committed
CommitPackage ==
    /\ Evaluating
    /\ ~BelowMinFee
    /\ PackageFits
    /\ TestPackageTransactions(CandPackage)
    /\ mi' = MiAfterSelect
    /\ nConsecutiveFailed' = 0
    /\ LET ancestors == CandPackage
           sortedEntries == SortForBlock(ancestors)
       IN  /\ AddToBlock(sortedEntries)
           /\ mapModifiedTx' =
                  UpdatePackagesForAdded(ancestors,
                      EraseFrom(mapModifiedTx, Range(sortedEntries)))
    /\ lastAccepted' = PackageEntry
    /\ UNCHANGED <<envVars, cfgVars, pc, nHeight, failedTx, vout, merkleRootMNList,
                   blockValid, auxResult, capRejected, finRejected, prevFinRejected, exitReason,
                   cutoffEntry>>

(***************************************************************************)
(* Coinbase composition                                                    *)
(***************************************************************************)
DEFAULT_FORTUNE_ADDRESS == "FkqwU8tUU6U41PuGTPUqy93hML4QtCDPDX"

\* coinbaseScript->reserveScript of the wallet, and the scripts a caller may hand over
reserveScript == <<"P2PKH", "miner">>
PayoutScripts == {<<>>, reserveScript}

\* swapAddresses in the iteration order of std::map (by key).  The amounts are
\* abbreviated to their leading digits; each output copies its entry's amount.
swapAddresses ==
    << [address |-> "FXgtjrqhSA9Gs8nSP1p7Y7B5s84zw9Fty7", amount |-> 215528],
       [address |-> "FZAYMWjmRJEsupQ8MqEGs94n4FtRSZMk6v", amount |-> 4796],
       [address |-> "Fd6wLo3udd79LmhuAf4crMwA1AUYdeGxNg", amount |-> 247789],
       [address |-> "FftK6xcwwHNGC1EYms2zDVGH4HcCGzbvvc", amount |-> 34470],
       [address |-> "FkXgpHP3Z7o6s4pWJBwYbjG2ZW1B7tEcNB", amount |-> 3580],
       [address |-> "FmsbXDtJ5w4w4cw4jLwDV6GJKHHqCyz4u2", amount |-> 1836],
       [address |-> "FsWL1XsRedStQqi96M1jgJgSqjv8syJTFQ", amount |-> 12120] >>

\* IsValidDestination(DecodeDestination(address))
IsValidDestination(address) == address # ""

\* GetScriptForDestination(DecodeDestination(address))
GetScriptForDestination(address) ==
    IF IsValidDestination(address) THEN <<"P2PKH", address>> ELSE <<>>

\* GetBlockSubsidy(pindexPrev->nBits, pindexPrev->nHeight, consensus)
nSubsidyHalvingInterval == 260000
GetBlockSubsidy(nPrevHeight) == 5000 \div (2 ^ (nPrevHeight \div nSubsidyHalvingInterval))

\* the chain as the payment layers read it
BlockHashXor(h) ==
    CASE h = 1 -> 11
      [] h = 2 -> 7
      [] h = 3 -> 5
      [] h = 4 -> 9
      [] OTHER -> 3

GetBlockCoinbaseMinerAddress(h) ==
    CASE h = 0 -> "FminerOfGenesis"
      [] h = 1 -> "FXgtjrqhSA9Gs8nSP1p7Y7B5s84zw9Fty7"
      [] h = 2 -> ""
      [] OTHER -> "FminerOfLaterBlock"

\* FortunePayment(rewardStructures, startBlock) of one structure {INT_MAX, percentage};
\* the address argument defaults to DEFAULT_FORTUNE_ADDRESS
FortunePayment(percentage, startBlock) ==
    [rewardStructures |-> << [blockHeight |-> INT_MAX, rewardPercentage |-> percentage] >>,
     startBlock |-> startBlock,
     fortuneAddress |-> DEFAULT_FORTUNE_ADDRESS]

\* consensus.nFortunePayment = FortunePayment({{INT_MAX, 5}}, 0): 5% lucky reward forever
MainFortunePayment == FortunePayment(5, 0)

\* a schedule of two steps, 10% up to height 1 and 5% from then on, and one
\* whose last step ends at height 2
SteppedFortunePayment ==
    [rewardStructures |-> << [blockHeight |-> 1, rewardPercentage |-> 10],
                             [blockHeight |-> INT_MAX, rewardPercentage |-> 5] >>,
     startBlock |-> 0,
     fortuneAddress |-> DEFAULT_FORTUNE_ADDRESS]
EndingFortunePayment ==
    [rewardStructures |-> << [blockHeight |-> 1, rewardPercentage |-> 10],
                             [blockHeight |-> 2, rewardPercentage |-> 20] >>,
     startBlock |-> 0,
     fortuneAddress |-> DEFAULT_FORTUNE_ADDRESS]

\* the test networks: FortunePayment(rewardStructures, 0, "")
TestNetFortunePayment == [MainFortunePayment EXCEPT !.fortuneAddress = ""]

\* schedules a chain may be configured with: the main network's, one that
\* starts later, one whose percentage exceeds the whole reward, and the two
\* with more than one step; and the test networks' configuration
FortuneSchedules ==
    {MainFortunePayment, FortunePayment(5, 2), FortunePayment(150, 0),
     SteppedFortunePayment, EndingFortunePayment, TestNetFortunePayment}

RECURSIVE ScanRewardStructures_firstOnly(_, _, _, _)
ScanRewardStructures_firstOnly(rs, i, blockHeight, blockReward) ==
    IF i > Len(rs) THEN 0
    ELSE IF rs[i].blockHeight = INT_MAX \/ blockHeight <= rs[i].blockHeight
         THEN (blockReward * rs[i].rewardPercentage) \div 100
         ELSE 0

\* FortunePayment::getFortunePaymentAmount
RECURSIVE ScanRewardStructures(_, _, _, _)
ScanRewardStructures(rs, i, blockHeight, blockReward) ==
    IF i > Len(rs) THEN 0
    ELSE IF rs[i].blockHeight = INT_MAX \/ blockHeight <= rs[i].blockHeight
         THEN (blockReward * rs[i].rewardPercentage) \div 100
         ELSE ScanRewardStructures(rs, i + 1, blockHeight, blockReward)

getFortunePaymentAmount_strict(fp, blockHeight, blockReward) ==
    IF blockHeight < fp.startBlock THEN 0
    ELSE ScanRewardStructures(fp.rewardStructures, 1, blockHeight, blockReward)

getFortunePaymentAmount(fp, blockHeight, blockReward) ==
    IF blockHeight <= fp.startBlock THEN 0
    ELSE ScanRewardStructures(fp.rewardStructures, 1, blockHeight, blockReward)

\* ChainActive()[blockHeight]: the block index at that height of the active
\* chain, with the xor of the four 64-bit words of its hash
ChainActiveAt(blockHeight) ==
    [nHeight |-> blockHeight, hashXor |-> BlockHashXor(blockHeight)]

\* luckyHeight = (GetUint64(0) ^ ... ^ GetUint64(3)) % pblockindex->nHeight
luckyHeight_nextHeight(blockHeight) ==
    ChainActiveAt(blockHeight).hashXor % (ChainActiveAt(blockHeight).nHeight + 1)

luckyHeight(blockHeight) ==
    ChainActiveAt(blockHeight).hashXor % ChainActiveAt(blockHeight).nHeight

GetFortuneAddressByHeight_configured(blockHeight) ==
    IF blockHeight <= 0 \/ blockHeight > tipHeight
    THEN nFortunePayment.fortuneAddress
    ELSE GetBlockCoinbaseMinerAddress(luckyHeight(blockHeight))

\* FortunePayment::GetFortuneAddressByHeight: the value left in fortuneAddress.
\* Every path assigns the member and none reads it, so the member is not
\* kept between calls.
GetFortuneAddressByHeight(blockHeight) ==
    IF blockHeight <= 0 \/ blockHeight > tipHeight
    THEN DEFAULT_FORTUNE_ADDRESS
    ELSE GetBlockCoinbaseMinerAddress(luckyHeight(blockHeight))

FillFortunePayment_deductLast(txvout, nBlockHeight, blockReward) ==
    LET fortunePayment == getFortunePaymentAmount(nFortunePayment, nBlockHeight - 1, blockReward)
        payee == GetScriptForDestination(GetFortuneAddressByHeight(nBlockHeight - 1))
    IN  Append([txvout EXCEPT ![Len(txvout)].nValue = @ - fortunePayment],
               [nValue |-> fortunePayment, scriptPubKey |-> payee])

\* FortunePayment::FillFortunePayment: txNew.vout afterwards (address valid)
FillFortunePayment_noDeduct(txvout, nBlockHeight, blockReward) ==
    LET fortunePayment == getFortunePaymentAmount(nFortunePayment, nBlockHeight - 1, blockReward)
        payee == GetScriptForDestination(GetFortuneAddressByHeight(nBlockHeight - 1))
    IN  Append(txvout, [nValue |-> fortunePayment, scriptPubKey |-> payee])

FillFortunePayment(txvout, nBlockHeight, blockReward) ==
    LET fortunePayment == getFortunePaymentAmount(nFortunePayment, nBlockHeight - 1, blockReward)
        payee == GetScriptForDestination(GetFortuneAddressByHeight(nBlockHeight - 1))
    IN  Append([txvout EXCEPT ![1].nValue = @ - fortunePayment],
               [nValue |-> fortunePayment, scriptPubKey |-> payee])

\* FortunePayment::IsBlockPayeeValid
IsBlockPayeeValid_exact(txvout, height, blockReward) ==
    LET payee == GetScriptForDestination(GetFortuneAddressByHeight(height))
        fortuneReward == getFortunePaymentAmount(nFortunePayment, height, blockReward)
    IN  \E i \in 1..Len(txvout) :
            txvout[i].scriptPubKey = payee /\ txvout[i].nValue = fortuneReward

IsBlockPayeeValid(txvout, height, blockReward) ==
    LET payee == GetScriptForDestination(GetFortuneAddressByHeight(height))
        fortuneReward == getFortunePaymentAmount(nFortunePayment, height, blockReward)
    IN  \E i \in 1..Len(txvout) :
            txvout[i].scriptPubKey = payee /\ txvout[i].nValue >= fortuneReward

\* FillBlockPayments: with a smartnode payee, its share (20 percent of the
\* reward and 0.8 of the special fees) moves from output 0 to a new output
FillBlockPayments(txvout, blockReward, specialTxFees, hasPayee) ==
    LET payment == (blockReward * 20) \div 100 + (specialTxFees * 8) \div 10
    IN  IF hasPayee
        THEN Append([txvout EXCEPT ![1].nValue = @ - payment],
                    [nValue |-> payment, scriptPubKey |-> <<"P2PKH", "smartnode">>])
        ELSE txvout

\* coinbaseTx.vout before the payment layers run
InitialCoinbaseVout_keepMiner(height, blockRewardWithSpecialtx) ==
    IF height = 1
    THEN <<[nValue |-> blockRewardWithSpecialtx, scriptPubKey |-> scriptPubKeyIn]>>
         \o [i \in 1..Len(swapAddresses) |->
                [nValue |-> swapAddresses[i].amount,
                 scriptPubKey |-> GetScriptForDestination(swapAddresses[i].address)]]
    ELSE <<[nValue |-> blockRewardWithSpecialtx, scriptPubKey |-> scriptPubKeyIn]>>

InitialCoinbaseVout(height, blockRewardWithSpecialtx) ==
    IF height = 1
    THEN [i \in 1..Len(swapAddresses) |->
             [nValue |-> swapAddresses[i].amount,
              scriptPubKey |-> GetScriptForDestination(swapAddresses[i].address)]]
    ELSE <<[nValue |-> blockRewardWithSpecialtx, scriptPubKey |-> scriptPubKeyIn]>>

\* GetLegacySigOpCount of the coinbase: one OP_CHECKSIG per pay-to-pubkey-hash output
GetLegacySigOpCount(txvout) == Len(txvout)

normalBlockReward == nFees + GetBlockSubsidy(nHeight - 1)
blockRewardWithSpecialtx == normalBlockReward + nSpecialTxFees

\* outcomes of CalcCbTxMerkleRootMNList
MNListOutcomes == {"ok", "bad-protx-hash", "other"}

\* a smartnode payee can exist only once blocks before this one registered it
PayeeChoices == IF nHeight = 1 THEN {FALSE} ELSE BOOLEAN

FortuneAddressValid == IsValidDestination(GetFortuneAddressByHeight(nHeight - 1))

\* state.GetRejectReason() == "bad-protx-hash": the failure is logged and survived
MNListFailureRecoverable_never(mnList) == FALSE

MNListFailureRecoverable(mnList) == mnList = "bad-protx-hash"

\* cbTx.merkleRootMNList once CalcCbTxMerkleRootMNList has returned
MerkleRootAfter(mnList) ==
    IF mnList = "ok" THEN "computed"
    ELSE IF MNListFailureRecoverable(mnList) THEN "null"
    ELSE merkleRootMNList

\* no merkle root was asked for yet
NoAuxResult == [mnList |-> "none", quorums |-> "none"]

\* the coinbase is built and stored in vtx[0]
ComposeCoinbase ==
    /\ pc = "coinbase"
    /\ FortuneAddressValid
    /\ \E mnList \in MNListOutcomes, hasPayee \in PayeeChoices :
          /\ mnList = "ok" \/ MNListFailureRecoverable(mnList)
          /\ merkleRootMNList' = MerkleRootAfter(mnList)
          /\ auxResult' = [mnList |-> mnList, quorums |-> "ok"]
          /\ vout' = FillFortunePayment(
                         FillBlockPayments(
                             InitialCoinbaseVout(nHeight, blockRewardWithSpecialtx),
                             normalBlockReward, nSpecialTxFees, hasPayee),
                         nHeight, normalBlockReward)
    /\ vTxFees' = [vTxFees EXCEPT ![1] = -nFees]
    /\ vSpecialTxFees' = [vSpecialTxFees EXCEPT ![1] = -nSpecialTxFees]
    /\ vTxSigOps' = [vTxSigOps EXCEPT ![1] = GetLegacySigOpCount(vout')]
    /\ nTime' = UpdateTimeSets(nHeight - 1)
    /\ nTimeSeen' = Max(nTimeSeen, nAdjustedTime)
    /\ pc' = "validate"
    /\ UNCHANGED <<poolVars, unsafeTx, tipHeight, workerVars, cfgVars, nHeight, inBlock,
                   nBlockSize, nBlockSigOps, nBlockTx,
                   nFees, nSpecialTxFees, vtx, loopVars, blockValid, histVars,
                   prevFinRejected>>

\* CalcCbTxMerkleRootMNList fails for another reason, CalcCbTxMerkleRootQuorums
\* fails, or the fortune address is invalid: the call throws
ComposeCoinbaseThrows ==
    /\ pc = "coinbase"
    /\ \E mnList \in MNListOutcomes, quorumsOk \in BOOLEAN :
          LET mnListThrows == mnList # "ok" /\ ~MNListFailureRecoverable(mnList)
          IN  /\ mnListThrows \/ ~quorumsOk \/ ~FortuneAddressValid
              /\ merkleRootMNList' = MerkleRootAfter(mnList)
              /\ auxResult' = [mnList |-> mnList,
                               quorums |-> IF mnListThrows THEN "none"
                                           ELSE IF quorumsOk THEN "ok" ELSE "failed"]
    /\ pc' = "error"
    /\ UNCHANGED <<envVars, cfgVars, nHeight, blockVars, loopVars, vout,
                   blockValid, histVars, prevFinRejected>>

(***************************************************************************)
(* Final validation and the end of the call                                *)
(***************************************************************************)
\* if (!TestBlockValidity(...)) throw std::runtime_error(...); return the template
AfterTestBlockValidity_noThrow(ok) == "done"

AfterTestBlockValidity(ok) == IF ok THEN "done" ELSE "error"

FinalValidation ==
    /\ pc = "validate"
    /\ \E ok \in BOOLEAN :
          /\ blockValid' = IF ok THEN "valid" ELSE "invalid"
          /\ pc' = AfterTestBlockValidity(ok)
    /\ UNCHANGED <<envVars, cfgVars, nHeight, blockVars, loopVars, vout, merkleRootMNList,
                   auxResult, histVars, prevFinRejected>>

\* the temporary BlockAssembler and what it built are gone
DestroyAssembler ==
    /\ pc' = "idle"
    /\ prevFinRejected' = finRejected \cap mempool
    /\ nHeight' = 0
    /\ inBlock' = {}
    /\ nBlockSize' = 0
    /\ nBlockSigOps' = 0
    /\ nBlockTx' = 0
    /\ nFees' = 0
    /\ nSpecialTxFees' = 0
    /\ vtx' = <<>>
    /\ vTxFees' = <<>>
    /\ vSpecialTxFees' = <<>>
    /\ vTxSigOps' = <<>>
    /\ mapModifiedTx' = EmptyMap
    /\ failedTx' = {}
    /\ mi' = 1
    /\ nConsecutiveFailed' = 0
    /\ vout' = <<>>
    /\ merkleRootMNList' = "unset"
    /\ blockValid' = "untested"
    /\ auxResult' = NoAuxResult
    /\ capRejected' = {}
    /\ finRejected' = {}
    /\ exitReason' = "running"
    /\ lastAccepted' = <<>>
    /\ cutoffEntry' = <<>>

\* the caller takes the template or the error; the assembler is destroyed
\* nothing is being built or searched
NoHeaderTime == nTime = 0 /\ nTimeSeen = 0
DropHeaderTime == nTime' = 0 /\ nTimeSeen' = 0

EndOfCall ==
    /\ pc \in {"done", "error"}
    /\ DestroyAssembler
    /\ DropHeaderTime
    /\ UNCHANGED <<poolVars, unsafeTx, tipHeight, workerVars, cfgVars>>

(***************************************************************************)
(* The environment, between calls                                          *)
(***************************************************************************)
callVars == <<pc, nHeight, blockVars, loopVars, vout, merkleRootMNList, blockValid,
              auxResult, histVars>>

\* a transaction arrives in the mempool or leaves it
MempoolChanges ==
    /\ pc = "idle"
    /\ \E t \in TxIds :
          LET pool == IF t \in mempool THEN mempool \ {t} ELSE mempool \cup {t}
          IN
          /\ mempool' = pool
          /\ mapTx' = MapTxOf(pool)
          /\ ancestorScore' = AncestorScoreOf(pool)
          /\ unsafeTx' = unsafeTx \cap pool
    /\ prevFinRejected' = {}
    /\ UNCHANGED <<tipHeight, minerVars, cfgVars, callVars>>

\* time passes, locks arrive: another entry (or none) fails the finality tests
OracleChanges ==
    /\ pc = "idle"
    /\ \E u \in {{}} \cup {{t} : t \in mempool} : u # unsafeTx /\ unsafeTx' = u
    /\ UNCHANGED <<poolVars, tipHeight, minerVars, cfgVars, callVars, prevFinRejected>>

\* a block is connected
TipAdvances ==
    /\ pc = "idle"
    /\ tipHeight < MaxTip
    /\ tipHeight' = tipHeight + 1
    /\ prevFinRejected' = {}
    /\ UNCHANGED <<poolVars, unsafeTx, minerVars, cfgVars, callVars>>

\* no call is in progress
NoCall ==
    /\ pc = "idle"
    /\ nHeight = 0
    /\ inBlock = {}
    /\ nBlockSize = 0
    /\ nBlockSigOps = 0
    /\ nBlockTx = 0
    /\ nFees = 0
    /\ nSpecialTxFees = 0
    /\ vtx = <<>>
    /\ vTxFees = <<>>
    /\ vSpecialTxFees = <<>>
    /\ vTxSigOps = <<>>
    /\ mapModifiedTx = EmptyMap
    /\ failedTx = {}
    /\ mi = 1
    /\ nConsecutiveFailed = 0
    /\ vout = <<>>
    /\ merkleRootMNList = "unset"
    /\ blockValid = "untested"
    /\ auxResult = NoAuxResult
    /\ capRejected = {}
    /\ finRejected = {}
    /\ prevFinRejected = {}
    /\ exitReason = "running"
    /\ lastAccepted = <<>>
    /\ cutoffEntry = <<>>

\* no mining worker runs
MinerOff ==
    /\ miner = "off"
    /\ pindexPrev = -1
    /\ hashPrevBlock = -1
    /\ scriptSigHeight = -1
    /\ nNonce = 0
    /\ minerLog = "none"
    /\ NoHeaderTime

(***************************************************************************)
(* GenerateFortuneblocks: starting and stopping the miner threads          *)
(***************************************************************************)
MaxGroups == 3            \* thread groups created in one run of the model
CoreCounts == {1, 3}      \* values of GetNumCores()
ThreadArgs == (0 - 1)..2  \* values of the argument nThreads

\* no call of GenerateFortuneblocks yet
NoGenerate == [called |-> FALSE, fGenerate |-> FALSE, nThreads |-> 0, previous |-> 0]

GenIdle ==
    /\ numCores = 1
    /\ minerThreads = 0
    /\ threadGroups = <<>>
    /\ lastGenerate = NoGenerate

\* if (nThreads < 0) nThreads = numCores
EffectiveThreads_asGiven(nThreads) == nThreads

EffectiveThreads(nThreads) == IF nThreads < 0 THEN numCores ELSE nThreads

\* minerThreads->interrupt_all(); delete minerThreads: the threads of group g
\* have an interruption pending, and the group object is gone
InterruptAndDelete(groups, g) ==
    IF g = 0 THEN groups
    ELSE [groups EXCEPT ![g].interrupted = TRUE, ![g].deleted = TRUE]

\* new boost::thread_group() and n times create_thread
NewThreadGroup(n) ==
    [created |-> n, running |-> n, interrupted |-> FALSE, deleted |-> FALSE]

\* one call of GenerateFortuneblocks(fGenerate, nThreads, ...)
GenerateFortuneblocks(fGenerate, nThreadsArg) ==
    LET nThreads == EffectiveThreads(nThreadsArg)
        stopped == InterruptAndDelete(threadGroups, minerThreads)
    IN  /\ lastGenerate' = [called |-> TRUE, fGenerate |-> fGenerate,
                            nThreads |-> nThreadsArg, previous |-> minerThreads]
        /\ IF nThreads = 0 \/ ~fGenerate
           THEN /\ minerThreads' = 0
                /\ threadGroups' = stopped
           ELSE /\ Len(threadGroups) < MaxGroups
                /\ minerThreads' = Len(threadGroups) + 1
                /\ threadGroups' = Append(stopped, NewThreadGroup(nThreads))
        /\ UNCHANGED numCores

\* the node (init, or the setgenerate RPC) calls GenerateFortuneblocks
GenerateCalled ==
    \E fGenerate \in BOOLEAN, nThreads \in ThreadArgs :
        GenerateFortuneblocks(fGenerate, nThreads)

\* a miner thread with an interruption pending reaches an interruption point
\* and ends (catch (const boost::thread_interrupted &) ... throw)
MinerThreadInterrupted ==
    /\ \E g \in 1..Len(threadGroups) :
          /\ threadGroups[g].interrupted
          /\ threadGroups[g].running > 0
          /\ threadGroups' = [threadGroups EXCEPT ![g].running = @ - 1]
    /\ UNCHANGED <<numCores, minerThreads, lastGenerate>>

(***************************************************************************)
(* IncrementExtraNonce under several miner threads                         *)
(***************************************************************************)
NonceThreads == 1..2      \* the miner threads of one thread group
MaxExtraNonce == 3        \* highest extra nonce a thread reaches in the model

\* a thread outside IncrementExtraNonce, and one that never called it
NotInIncrement == [at |-> "out", prev |-> -1, differs |-> FALSE]
NoNonceCall == [called |-> FALSE, prev |-> -1, previous |-> -1, nExtraNonce |-> 0]

NonceIdle ==
    /\ nExtraNonce = [t \in NonceThreads |-> 0]
    /\ staticHashPrevBlock = -1
    /\ nonceCall = [t \in NonceThreads |-> NotInIncrement]
    /\ lastNonceCall = [t \in NonceThreads |-> NoNonceCall]

\* if (hashPrevBlock != pblock->hashPrevBlock): thread t enters
\* IncrementExtraNonce with a block built on the tip and reads the static
ExtraNonceCompares(t) ==
    /\ nonceCall[t].at = "out"
    /\ nExtraNonce[t] < MaxExtraNonce
    /\ nonceCall' = [nonceCall EXCEPT ![t] =
                        [at |-> "compared", prev |-> tipHeight,
                         differs |-> staticHashPrevBlock # tipHeight]]
    /\ UNCHANGED <<nExtraNonce, staticHashPrevBlock, lastNonceCall>>

\* the value of nExtraNonce after { nExtraNonce = 0; hashPrevBlock = ...; }
\* or not, and ++nExtraNonce
ExtraNonceAfter(t) == IF nonceCall[t].differs THEN 1 ELSE nExtraNonce[t] + 1

\* the rest of the call: the reset and the write of the static if the
\* comparison found a difference, then the increment
ExtraNonceUpdates(t) ==
    /\ nonceCall[t].at = "compared"
    /\ nExtraNonce' = [nExtraNonce EXCEPT ![t] = ExtraNonceAfter(t)]
    /\ staticHashPrevBlock' =
           IF nonceCall[t].differs THEN nonceCall[t].prev ELSE staticHashPrevBlock
    /\ lastNonceCall' = [lastNonceCall EXCEPT ![t] =
                            [called |-> TRUE, prev |-> nonceCall[t].prev,
                             previous |-> lastNonceCall[t].prev,
                             nExtraNonce |-> ExtraNonceAfter(t)]]
    /\ nonceCall' = [nonceCall EXCEPT ![t] = NotInIncrement]

(***************************************************************************)
(* CDeterministicMNState: banning and reviving a masternode                *)
(***************************************************************************)
\* CDeterministicMNState() = default
DefaultMNState == [nPoSeBanHeight |-> -1, nPoSePenalty |-> 0, nPoSeRevivedHeight |-> -1]

\* block heights handed to BanIfNotBanned and Revive, and penalties a state
\* read from the database may carry
BanHeights == 0..MaxTip
PoSePenalties == {0, 66}

NoBanCall == [op |-> "none", height |-> -1, before |-> DefaultMNState]

BanIdle ==
    /\ mnState = DefaultMNState
    /\ lastBanCall = NoBanCall

\* CDeterministicMNState::IsBanned
IsBanned_positive(state) == state.nPoSeBanHeight > 0

IsBanned(state) == state.nPoSeBanHeight # -1

\* CDeterministicMNState::BanIfNotBanned: the state afterwards
BanIfNotBanned(state, height) ==
    IF ~IsBanned(state) THEN [state EXCEPT !.nPoSeBanHeight = height] ELSE state

\* CDeterministicMNState::Revive: the state afterwards
Revive(state, nRevivedHeight) ==
    [state EXCEPT !.nPoSePenalty = 0,
                  !.nPoSeBanHeight = -1,
                  !.nPoSeRevivedHeight = nRevivedHeight]

BanCalled ==
    \E height \in BanHeights :
        /\ mnState' = BanIfNotBanned(mnState, height)
        /\ lastBanCall' = [op |-> "ban", height |-> height, before |-> mnState]

ReviveCalled ==
    \E height \in BanHeights :
        /\ mnState' = Revive(mnState, height)
        /\ lastBanCall' = [op |-> "revive", height |-> height, before |-> mnState]

(***************************************************************************)
(* CDeterministicMNStateDiff: the difference of two masternode states      *)
(***************************************************************************)
\* DMN_STATE_DIFF_ALL_FIELDS, in the order of the macro
DMN_STATE_DIFF_ALL_FIELDS ==
    << "nRegisteredHeight", "nLastPaidHeight", "nPoSePenalty", "nPoSeRevivedHeight",
       "nPoSeBanHeight", "nRevocationReason", "confirmedHash",
       "confirmedHashWithProRegTxHash", "keyIDOwner", "pubKeyOperator", "keyIDVoting",
       "addr", "scriptPayout", "scriptOperatorPayout", "nCollateralAmount" >>

StateFields == {DMN_STATE_DIFF_ALL_FIELDS[i] : i \in 1..Len(DMN_STATE_DIFF_ALL_FIELDS)}

\* enum Field : uint32_t
FieldBit_shared(f) ==
    CASE f = "nRegisteredHeight" -> 1
      [] f = "nLastPaidHeight" -> 2
      [] f = "nPoSePenalty" -> 4
      [] f = "nPoSeRevivedHeight" -> 8
      [] f = "nPoSeBanHeight" -> 16
      [] f = "nRevocationReason" -> 32
      [] f = "confirmedHash" -> 64
      [] f = "confirmedHashWithProRegTxHash" -> 128
      [] f = "keyIDOwner" -> 256
      [] f = "pubKeyOperator" -> 512
      [] f = "keyIDVoting" -> 1024
      [] f = "addr" -> 1024
      [] f = "scriptPayout" -> 4096
      [] f = "scriptOperatorPayout" -> 8192
      [] f = "nCollateralAmount" -> 16384

FieldBit(f) ==
    CASE f = "nRegisteredHeight" -> 1
      [] f = "nLastPaidHeight" -> 2
      [] f = "nPoSePenalty" -> 4
      [] f = "nPoSeRevivedHeight" -> 8
      [] f = "nPoSeBanHeight" -> 16
      [] f = "nRevocationReason" -> 32
      [] f = "confirmedHash" -> 64
      [] f = "confirmedHashWithProRegTxHash" -> 128
      [] f = "keyIDOwner" -> 256
      [] f = "pubKeyOperator" -> 512
      [] f = "keyIDVoting" -> 1024
      [] f = "addr" -> 2048
      [] f = "scriptPayout" -> 4096
      [] f = "scriptOperatorPayout" -> 8192
      [] f = "nCollateralAmount" -> 16384

\* fields & bit, and fields | bit
HasBit(fields, bit) == (fields \div bit) % 2 = 1
WithBit(fields, bit) == IF HasBit(fields, bit) THEN fields ELSE fields + bit

\* a default-constructed state; hashes, keys, scripts and the address are
\* numbered, 0 being the null or empty value
DefaultFullState ==
    [f \in StateFields |->
        CASE f \in {"nRegisteredHeight", "nPoSeRevivedHeight", "nPoSeBanHeight"} -> -1
          [] OTHER -> 0]

\* another value of field f
OtherValue(f) == IF f \in {"nLastPaidHeight", "nPoSePenalty"} THEN 66 ELSE 1

\* the states tried: the default one with up to two fields set otherwise
SampleStates ==
    {[DefaultFullState EXCEPT ![f] = OtherValue(f), ![g] = OtherValue(g)] :
         f, g \in StateFields}
      \cup {DefaultFullState}

NoStateDiff == [built |-> FALSE, fields |-> 0, state |-> DefaultFullState]
NotApplied == [applied |-> FALSE, before |-> DefaultFullState, after |-> DefaultFullState]

DiffIdle ==
    /\ diffStates = [a |-> DefaultFullState, b |-> DefaultFullState]
    /\ mnStateDiff = NoStateDiff
    /\ diffApplied = NotApplied

\* CDeterministicMNStateDiff(a, b): line i of the macro and those after it,
\* if (a.f != b.f) { state.f = b.f; fields |= Field_f; }
RECURSIVE DiffLines(_, _, _, _)
DiffLines(a, b, i, d) ==
    IF i > Len(DMN_STATE_DIFF_ALL_FIELDS) THEN d
    ELSE LET f == DMN_STATE_DIFF_ALL_FIELDS[i]
         IN  DiffLines(a, b, i + 1,
                 IF a[f] # b[f]
                 THEN [d EXCEPT !.state[f] = b[f], !.fields = WithBit(d.fields, FieldBit(f))]
                 ELSE d)

CDeterministicMNStateDiff(a, b) ==
    DiffLines(a, b, 1, [built |-> TRUE, fields |-> 0, state |-> DefaultFullState])

\* ApplyToState(target): if (fields & Field_f) target.f = state.f, line by line
RECURSIVE ApplyLines(_, _, _)
ApplyLines(d, target, i) ==
    IF i > Len(DMN_STATE_DIFF_ALL_FIELDS) THEN target
    ELSE LET f == DMN_STATE_DIFF_ALL_FIELDS[i]
         IN  ApplyLines(d,
                 IF HasBit(d.fields, FieldBit(f)) THEN [target EXCEPT ![f] = d.state[f]]
                 ELSE target,
                 i + 1)

ApplyToState(d, target) == ApplyLines(d, target, 1)

\* the diff of a and b is built
DiffBuilt ==
    /\ ~mnStateDiff.built
    /\ mnStateDiff' = CDeterministicMNStateDiff(diffStates.a, diffStates.b)
    /\ UNCHANGED <<diffStates, diffApplied>>

\* it is applied to a copy of a, to a copy of b, or to a new state
DiffAppliedTo ==
    /\ mnStateDiff.built
    /\ ~diffApplied.applied
    /\ \E target \in {diffStates.a, diffStates.b, DefaultFullState} :
          diffApplied' = [applied |-> TRUE, before |-> target,
                          after |-> ApplyToState(mnStateDiff, target)]
    /\ UNCHANGED <<diffStates, mnStateDiff>>

(***************************************************************************)
(* UpdateLLMQParams: switching the quorum parameters with the masternode   *)
(* count                                                                   *)
(***************************************************************************)
\* the DKG interval and mining window of each parameter set, scaled down so
\* that a few heights cover windows and the gaps between them
LLMQParamsOf(name) ==
    CASE name \in {"llmq3_60", "llmq10_60", "llmq50_60", "llmq100_67"} ->
             [dkgInterval |-> 4, dkgMiningWindowStart |-> 2, dkgMiningWindowEnd |-> 3]
      [] name = "llmq200_2" ->
             [dkgInterval |-> 4, dkgMiningWindowStart |-> 1, dkgMiningWindowEnd |-> 2]
      [] name \in {"llmq5_60", "llmq20_60", "llmq40_60", "llmq200_60", "llmq400_60"} ->
             [dkgInterval |-> 8, dkgMiningWindowStart |-> 5, dkgMiningWindowEnd |-> 6]
      [] OTHER ->
             [dkgInterval |-> 16, dkgMiningWindowStart |-> 5, dkgMiningWindowEnd |-> 6]

\* CMainParams and CTestNetParams: consensus.llmqs after construction
InitialLLMQs ==
    [q \in {"LLMQ_50_60", "LLMQ_400_60", "LLMQ_400_85", "LLMQ_100_67"} |->
        CASE q = "LLMQ_50_60" -> "llmq3_60"
          [] q = "LLMQ_400_60" -> "llmq20_60"
          [] q = "LLMQ_400_85" -> "llmq20_85"
          [] OTHER -> "llmq100_67"]

\* the heights and masternode counts UpdateLLMQParams is called with
LLMQHeights == 0..6 \cup {24280}
MnCounts == {4, 5, 80, 100, 600, 4000}

NoLLMQCall ==
    [called |-> FALSE, totalMnCount |-> 0, height |-> 0, lowLLMQParams |-> FALSE,
     quorums200 |-> FALSE, llmqs |-> InitialLLMQs, lastCheckMnCount |-> 0,
     lastCheckHeight |-> 0, lastCheckedLowLLMQParams |-> FALSE]

LLMQIdle ==
    /\ networkID = "main"
    /\ llmqs = InitialLLMQs
    /\ lastCheckMnCount = 0
    /\ lastCheckHeight = 0
    /\ lastCheckedLowLLMQParams = FALSE
    /\ lastLLMQCall = NoLLMQCall

\* IsMiningPhase(params, atHeight)
IsMiningPhase_afterStart(params, atHeight) ==
    LET phaseIndex == atHeight % params.dkgInterval
    IN  phaseIndex > params.dkgMiningWindowStart /\ phaseIndex <= params.dkgMiningWindowEnd

IsMiningPhase(params, atHeight) ==
    LET phaseIndex == atHeight % params.dkgInterval
    IN  phaseIndex >= params.dkgMiningWindowStart /\ phaseIndex <= params.dkgMiningWindowEnd

\* IsLLMQsMiningPhase(atHeight): some configured quorum is in its mining window
IsLLMQsMiningPhase(atHeight) ==
    \E q \in DOMAIN llmqs : IsMiningPhase(LLMQParamsOf(llmqs[q]), atHeight)

\* the parameter sets UpdateLLMQParams assigns once it decided to update
LLMQsFor(totalMnCount, height, quorums200, lowLLMQParams) ==
    LET isTestNet == networkID = "test"
        byCount ==
            IF totalMnCount < 5
            THEN [llmqs EXCEPT !["LLMQ_50_60"] = "llmq3_60",
                               !["LLMQ_400_60"] = IF isTestNet THEN "llmq5_60" ELSE "llmq20_60",
                               !["LLMQ_400_85"] = IF isTestNet THEN "llmq5_85" ELSE "llmq20_85"]
            ELSE IF (totalMnCount < 80 /\ isTestNet) \/ (totalMnCount < 100 /\ ~isTestNet)
            THEN [llmqs EXCEPT !["LLMQ_50_60"] = "llmq10_60",
                               !["LLMQ_400_60"] = "llmq20_60",
                               !["LLMQ_400_85"] = "llmq20_85"]
            ELSE IF (((height >= 24280 /\ totalMnCount < 600)
                        \/ (height < 24280 /\ totalMnCount < 4000)) /\ isTestNet)
                    \/ (totalMnCount < 600 /\ ~isTestNet)
            THEN [llmqs EXCEPT !["LLMQ_50_60"] = "llmq50_60",
                               !["LLMQ_400_60"] = "llmq40_60",
                               !["LLMQ_400_85"] = "llmq40_85"]
            ELSE [llmqs EXCEPT !["LLMQ_50_60"] = "llmq50_60",
                               !["LLMQ_400_60"] = IF quorums200 THEN "llmq200_60" ELSE "llmq400_60",
                               !["LLMQ_400_85"] = IF quorums200 THEN "llmq200_85" ELSE "llmq400_85"]
    IN  IF lowLLMQParams THEN [byCount EXCEPT !["LLMQ_50_60"] = "llmq200_2"] ELSE byCount

\* CChainParams::UpdateLLMQParams(totalMnCount, height, blockIndex, lowLLMQParams);
\* quorums200 is Updates().IsActive(EUpdate::QUORUMS_200_8, blockIndex)
UpdateLLMQParams(totalMnCount, height, quorums200, lowLLMQParams) ==
    /\ IF /\ lastCheckHeight < height
          /\ (lastCheckMnCount # totalMnCount \/ lastCheckedLowLLMQParams # lowLLMQParams)
          /\ ~IsLLMQsMiningPhase(height)
       THEN /\ lastCheckMnCount' = totalMnCount
            /\ lastCheckedLowLLMQParams' = lowLLMQParams
            /\ lastCheckHeight' = height
            /\ llmqs' = LLMQsFor(totalMnCount, height, quorums200, lowLLMQParams)
       ELSE UNCHANGED <<lastCheckMnCount, lastCheckedLowLLMQParams, lastCheckHeight, llmqs>>
    /\ lastLLMQCall' =
           [called |-> TRUE, totalMnCount |-> totalMnCount, height |-> height,
            lowLLMQParams |-> lowLLMQParams, quorums200 |-> quorums200,
            llmqs |-> llmqs, lastCheckMnCount |-> lastCheckMnCount,
            lastCheckHeight |-> lastCheckHeight,
            lastCheckedLowLLMQParams |-> lastCheckedLowLLMQParams]
    /\ UNCHANGED networkID

\* a caller passes the masternode count and the height of a block
LLMQParamsUpdated ==
    \E totalMnCount \in MnCounts, height \in LLMQHeights, quorums200, lowLLMQParams \in BOOLEAN :
        UpdateLLMQParams(totalMnCount, height, quorums200, lowLLMQParams)

(***************************************************************************)
(* CDeterministicMNList: the map of unique properties                      *)
(***************************************************************************)
\* property values; nullValue is the default-constructed one.  A value stands
\* for its SerializeHash as well: different values, different hashes
nullValue == 0
PropertyValues == 0..2
\* the proTxHash of the masternodes
ProTxHashes == 1..2
\* the reference counts the model lets an entry reach
MaxRefs == 2

EmptyPropertyMap == [h \in {} |-> [first |-> 1, second |-> 1]]

NoUniqueCall ==
    [op |-> "none", dmn |-> 1, v |-> nullValue, newValue |-> nullValue,
     before |-> EmptyPropertyMap, result |-> TRUE]

UniqueIdle ==
    /\ mnUniquePropertyMap = EmptyPropertyMap
    /\ lastUniqueCall = NoUniqueCall

\* immer::map set and erase
MapSet(map, hash, entry) ==
    [h \in DOMAIN map \cup {hash} |-> IF h = hash THEN entry ELSE map[h]]
MapErase(map, hash) == [h \in DOMAIN map \ {hash} |-> map[h]]

\* AddUniqueProperty(dmn, v): the map afterwards and the value returned
AddUniqueProperty(map, dmn, v) ==
    IF v = nullValue THEN [map |-> map, ok |-> FALSE]
    ELSE IF v \in DOMAIN map /\ map[v].first # dmn THEN [map |-> map, ok |-> FALSE]
    ELSE [map |-> MapSet(map, v, [first |-> dmn,
                                  second |-> IF v \in DOMAIN map THEN map[v].second + 1 ELSE 1]),
          ok |-> TRUE]

\* DeleteUniqueProperty(dmn, oldValue)
DeleteUniqueProperty(map, dmn, oldValue) ==
    IF oldValue = nullValue THEN [map |-> map, ok |-> FALSE]
    ELSE IF oldValue \notin DOMAIN map \/ map[oldValue].first # dmn
    THEN [map |-> map, ok |-> FALSE]
    ELSE IF map[oldValue].second = 1
    THEN [map |-> MapErase(map, oldValue), ok |-> TRUE]
    ELSE [map |-> MapSet(map, oldValue, [first |-> dmn, second |-> map[oldValue].second - 1]),
          ok |-> TRUE]

\* UpdateUniqueProperty(dmn, oldValue, newValue)
UpdateUniqueProperty(map, dmn, oldValue, newValue) ==
    IF oldValue = newValue THEN [map |-> map, ok |-> TRUE]
    ELSE LET deleted == IF oldValue # nullValue
                        THEN DeleteUniqueProperty(map, dmn, oldValue)
                        ELSE [map |-> map, ok |-> TRUE]
         IN  IF ~deleted.ok THEN [map |-> deleted.map, ok |-> FALSE]
             ELSE IF newValue # nullValue
                  THEN AddUniqueProperty(deleted.map, dmn, newValue)
                  ELSE [map |-> deleted.map, ok |-> TRUE]

\* no reference count beyond the ones the model follows
RefsBounded(map) == \A h \in DOMAIN map : map[h].second <= MaxRefs

\* a call leaves its result in the map and in the record of the call
UniqueCall(op, dmn, v, newValue, outcome) ==
    /\ RefsBounded(outcome.map)
    /\ mnUniquePropertyMap' = outcome.map
    /\ lastUniqueCall' = [op |-> op, dmn |-> dmn, v |-> v, newValue |-> newValue,
                          before |-> mnUniquePropertyMap, result |-> outcome.ok]

AddCalled ==
    \E dmn \in ProTxHashes, v \in PropertyValues :
        UniqueCall("add", dmn, v, nullValue, AddUniqueProperty(mnUniquePropertyMap, dmn, v))

DeleteCalled ==
    \E dmn \in ProTxHashes, v \in PropertyValues :
        UniqueCall("delete", dmn, v, nullValue, DeleteUniqueProperty(mnUniquePropertyMap, dmn, v))

UpdateCalled ==
    \E dmn \in ProTxHashes, v, newValue \in PropertyValues :
        UniqueCall("update", dmn, v, newValue,
                   UpdateUniqueProperty(mnUniquePropertyMap, dmn, v, newValue))

\* the components block assembly does not touch, before anything happened
SideIdle == GenIdle /\ NonceIdle /\ BanIdle /\ DiffIdle /\ LLMQIdle /\ UniqueIdle

\* the same, but for the one component a specification is about
SideIdleBut(component) ==
    /\ IF component = "generate" THEN TRUE ELSE GenIdle
    /\ IF component = "nonce" THEN TRUE ELSE NonceIdle
    /\ IF component = "ban" THEN TRUE ELSE BanIdle
    /\ IF component = "diff" THEN TRUE ELSE DiffIdle
    /\ IF component = "llmq" THEN TRUE ELSE LLMQIdle
    /\ IF component = "unique" THEN TRUE ELSE UniqueIdle

\* a step of one component leaves the others alone
SideUnchangedBut(component) ==
    /\ IF component = "generate" THEN TRUE ELSE UNCHANGED genVars
    /\ IF component = "nonce" THEN TRUE ELSE UNCHANGED nonceVars
    /\ IF component = "ban" THEN TRUE ELSE UNCHANGED banVars
    /\ IF component = "diff" THEN TRUE ELSE UNCHANGED diffVars
    /\ IF component = "llmq" THEN TRUE ELSE UNCHANGED llmqVars
    /\ IF component = "unique" THEN TRUE ELSE UNCHANGED uniqueVars

\* the assembler and the worker at rest on an empty mempool
CoreIdle ==
    /\ mempool = {}
    /\ mapTx = MapTxOf({})
    /\ ancestorScore = AncestorScoreOf({})
    /\ unsafeTx = {}
    /\ nBlockMaxSize = ClampBlockMaxSize(4000)
    /\ blockMinFeeRate = 0
    /\ scriptPubKeyIn = reserveScript
    /\ nFortunePayment = MainFortunePayment
    /\ nAdjustedTime = 2
    /\ MinerOff
    /\ NoCall

\* what the other components leave alone
CoreUnchanged ==
    UNCHANGED <<poolVars, unsafeTx, minerVars, nBlockMaxSize, blockMinFeeRate, scriptPubKeyIn,
                nFortunePayment, nAdjustedTime, callVars, prevFinRejected>>

\* the options the BlockAssembler constructor reads
AssemblerOptions ==
    /\ nBlockMaxSize \in {ClampBlockMaxSize(opt) : opt \in BlockMaxSizeOptions}
    /\ blockMinFeeRate \in BlockMinFeeRates

Init ==
    /\ mempool = {}
    /\ mapTx = MapTxOf({})
    /\ ancestorScore = AncestorScoreOf({})
    /\ unsafeTx = {}
    /\ tipHeight = 0
    /\ AssemblerOptions
    /\ scriptPubKeyIn = reserveScript
    /\ nFortunePayment = MainFortunePayment
    /\ MinerOff
    /\ nAdjustedTime = 2
    /\ SideIdle
    /\ NoCall

StartCall == \E nQc \in QcCounts : CreateNewBlock(nQc)

Next ==
    \/ StartCall
    \/ LoopExhausted
    \/ SkipStaleEntry
    \/ FeeRateCutoff
    \/ CapacityFailure
    \/ FinalityFailure
    \/ CommitPackage
    \/ ComposeCoinbase
    \/ ComposeCoinbaseThrows
    \/ FinalValidation
    \/ EndOfCall
    \/ MempoolChanges
    \/ OracleChanges
    \/ TipAdvances

Spec == Init /\ [][Next]_vars

(***************************************************************************)
(* CreateNewBlock called with other payout scripts and payment schedules   *)
(***************************************************************************)
InitialPool(pool) ==
    /\ mempool = pool
    /\ mapTx = MapTxOf(pool)
    /\ ancestorScore = AncestorScoreOf(pool)

\* mempools the calls below start from, and the entry that is not final or safe
StartPools == {{}, TxIds}
StartUnsafe == {1}

ParamInit ==
    /\ \E pool \in StartPools : InitialPool(pool) /\ unsafeTx = StartUnsafe \cap pool
    /\ tipHeight = 0
    /\ AssemblerOptions
    /\ scriptPubKeyIn \in PayoutScripts
    /\ nFortunePayment \in FortuneSchedules
    /\ MinerOff
    /\ nAdjustedTime = 2
    /\ SideIdle
    /\ NoCall

ParamNext ==
    \/ StartCall
    \/ LoopExhausted
    \/ SkipStaleEntry
    \/ FeeRateCutoff
    \/ CapacityFailure
    \/ FinalityFailure
    \/ CommitPackage
    \/ ComposeCoinbase
    \/ ComposeCoinbaseThrows
    \/ FinalValidation
    \/ EndOfCall
    \/ TipAdvances

ParamSpec == ParamInit /\ [][ParamNext]_vars

(***************************************************************************)
(* CreateNewBlock over mempools with longer chains of unconfirmed          *)
(* transactions                                                            *)
(***************************************************************************)
ChainPools == {{8, 9, 10}, {8, 9}, {2, 3, 8, 9, 10}}
ChainUnsafe == {{}, {9}, {10}}

ChainInit ==
    /\ \E pool \in ChainPools, u \in ChainUnsafe :
          InitialPool(pool) /\ unsafeTx = u \cap pool
    /\ tipHeight = 0
    /\ AssemblerOptions
    /\ scriptPubKeyIn = reserveScript
    /\ nFortunePayment = MainFortunePayment
    /\ MinerOff
    /\ nAdjustedTime = 2
    /\ SideIdle
    /\ NoCall

ChainSpec == ChainInit /\ [][ParamNext]_vars

(***************************************************************************)
(* CreateNewBlock over a mempool with more than MAX_CONSECUTIVE_FAILURES   *)
(* transactions that do not fit                                            *)
(***************************************************************************)
BulkTx == {1000 + k : k \in 1..(MAX_CONSECUTIVE_FAILURES + 2)}
BulkPools == {TxIds \cup BulkTx, (TxIds \ {4}) \cup BulkTx}

\* the ancestor_score index again, by counting what sorts before each entry
RankOf(pool, m) ==
    [x \in pool |-> Cardinality({y \in pool : y # x /\ ScoreBefore(y, m[y], x, m[x])})]

OrderOf(pool, rank) ==
    [i \in 1..Cardinality(pool) |-> CHOOSE x \in pool : rank[x] = i - 1]

RankedByAncestorScore(pool) ==
    CHOOSE s \in {OrderOf(pool, rank) :
                     rank \in {RankOf(pool, m) : m \in {MapTxOf(pool)}}} : TRUE

BulkInit ==
    /\ \E pool \in BulkPools :
          /\ mempool = pool
          /\ mapTx = MapTxOf(pool)
          /\ ancestorScore = RankedByAncestorScore(pool)
          /\ unsafeTx = StartUnsafe \cap pool
    /\ tipHeight = 0
    /\ nBlockMaxSize \in {ClampBlockMaxSize(1200), ClampBlockMaxSize(4000)}
    /\ blockMinFeeRate \in BlockMinFeeRates
    /\ scriptPubKeyIn = reserveScript
    /\ nFortunePayment = MainFortunePayment
    /\ MinerOff
    /\ nAdjustedTime = 2
    /\ SideIdle
    /\ NoCall

BulkNext ==
    \/ StartCall
    \/ LoopExhausted
    \/ SkipStaleEntry
    \/ FeeRateCutoff
    \/ CapacityFailure
    \/ FinalityFailure
    \/ CommitPackage
    \/ ComposeCoinbase
    \/ FinalValidation
    \/ EndOfCall

BulkSpec == BulkInit /\ [][BulkNext]_vars

(***************************************************************************)
(* The thread inside addPackageTxs keeps running                           *)
(***************************************************************************)
\* one iteration of the loop of addPackageTxs, or its end
AddPackageTxsStep ==
    \/ LoopExhausted
    \/ SkipStaleEntry
    \/ FeeRateCutoff
    \/ CapacityFailure
    \/ FinalityFailure
    \/ CommitPackage

ChainFairSpec == ChainSpec /\ WF_vars(AddPackageTxsStep)

(***************************************************************************)
(* The mining worker: FortuneblockMiner                                    *)
(***************************************************************************)
\* the inner search loop breaks when (pblock->nNonce & 0xFF) == 0
NonceBatch == 256

\* no template is being searched
NoTemplate ==
    /\ hashPrevBlock' = -1
    /\ scriptSigHeight' = -1
    /\ nNonce' = 0

\* the worker fetches the coinbase script; without one it throws
\* std::runtime_error, which its own handler catches: log and return
MinerStart ==
    /\ miner = "start"
    /\ IF scriptPubKeyIn = <<>>
       THEN miner' = "stopped" /\ minerLog' = "runtime error"
       ELSE miner' = "top" /\ minerLog' = minerLog
    /\ UNCHANGED <<poolVars, unsafeTx, tipHeight, cfgVars, callVars, prevFinRejected,
                   pindexPrev, hashPrevBlock, scriptSigHeight, nNonce, timeVars>>

\* top of the outer loop: CBlockIndex *pindexPrev = ::ChainActive().Tip()
MinerCapturesTip ==
    /\ miner = "top"
    /\ pc = "idle"
    /\ pindexPrev' = tipHeight
    /\ miner' = "captured"
    /\ UNCHANGED <<poolVars, unsafeTx, tipHeight, cfgVars, callVars, prevFinRejected,
                   hashPrevBlock, scriptSigHeight, nNonce, minerLog, timeVars>>

\* BlockAssembler(mempool, Params()).CreateNewBlock(coinbaseScript->reserveScript)
MinerCallsCreateNewBlock ==
    /\ miner = "captured"
    /\ StartCall

\* IncrementExtraNonce(pblock, pindexPrev, nExtraNonce): the height put in front
\* of the coinbase scriptSig
IncrementExtraNonce(prev) == prev + 1

\* the template came back: the worker prepares the block and starts the search
MinerTakesTemplate ==
    /\ miner = "captured"
    /\ pc = "done"
    /\ hashPrevBlock' = nHeight - 1
    /\ scriptSigHeight' = IncrementExtraNonce(pindexPrev)
    /\ nNonce' = 0
    /\ miner' = "search"
    /\ DestroyAssembler
    /\ UNCHANGED <<poolVars, unsafeTx, tipHeight, cfgVars, pindexPrev, minerLog, timeVars>>

\* what the worker does with a std::runtime_error out of CreateNewBlock
AfterRuntimeError == "stopped"

\* catch (const std::runtime_error &e): LogPrintf(... runtime error ...); return
MinerCatchesError ==
    /\ miner = "captured"
    /\ pc = "error"
    /\ miner' = AfterRuntimeError
    /\ minerLog' = "runtime error"
    /\ NoTemplate
    /\ DropHeaderTime
    /\ DestroyAssembler
    /\ UNCHANGED <<poolVars, unsafeTx, tipHeight, cfgVars, pindexPrev>>

\* one pass of the inner loop: ComputeHash, then ProcessBlockFound up to the end
\* of its LOCK(cs_main) block (the stale test), or the next nonce and break once
\* its low byte is back at 0
HashStep ==
    /\ miner = "search"
    /\ \E found \in BOOLEAN :
          IF found
          THEN /\ nNonce' = nNonce
               /\ IF hashPrevBlock # tipHeight
                  THEN /\ miner' = "poll"
                       /\ minerLog' = "generated block is stale"
                  ELSE /\ miner' = "found"
                       /\ minerLog' = minerLog
          ELSE /\ nNonce' = (nNonce + 1) % NonceBatch
               /\ miner' = IF nNonce' = 0 THEN "poll" ELSE "search"
               /\ minerLog' = minerLog
    /\ UNCHANGED <<poolVars, unsafeTx, cfgVars, callVars, pindexPrev, hashPrevBlock,
                   scriptSigHeight, timeVars, tipHeight, prevFinRejected>>

\* the rest of ProcessBlockFound, outside cs_main: the block is handed to
\* ProcessNewBlock, which connects it when it extends the tip and is valid;
\* then the break out of the inner loop
ProcessNewBlock ==
    /\ miner = "found"
    /\ miner' = "poll"
    /\ \E accepted \in BOOLEAN :
          IF accepted /\ hashPrevBlock = tipHeight /\ tipHeight < MaxTip
          THEN /\ minerLog' = "proof-of-work found"
               /\ tipHeight' = tipHeight + 1
               /\ prevFinRejected' = {}
          ELSE /\ minerLog' = "block not accepted"
               /\ UNCHANGED <<tipHeight, prevFinRejected>>
    /\ UNCHANGED <<poolVars, unsafeTx, cfgVars, callVars, pindexPrev, hashPrevBlock,
                   scriptSigHeight, nNonce, timeVars>>

\* the checks after the inner loop: the nonce range is used up or the mempool
\* changed over a minute ago (other), or the tip moved
NeedsRebuild_noTipCheck(other) == other

NeedsRebuild(other) == other \/ pindexPrev # tipHeight

\* the poll after a batch: break to the outer loop, or update nTime and, unless
\* UpdateTime returned a negative value, search on
MinerPolls ==
    /\ miner = "poll"
    /\ \E other \in BOOLEAN :
          IF NeedsRebuild(other)
          THEN /\ miner' = "top"
               /\ NoTemplate
               /\ UNCHANGED timeVars
          ELSE /\ nTime' = UpdateTimeSets(pindexPrev)
               /\ nTimeSeen' = Max(nTimeSeen, nAdjustedTime)
               /\ IF UpdateTime(pindexPrev) < 0
                  THEN /\ miner' = "top"
                       /\ NoTemplate
                  ELSE /\ miner' = "search"
                       /\ UNCHANGED <<hashPrevBlock, scriptSigHeight, nNonce>>
    /\ UNCHANGED <<poolVars, unsafeTx, tipHeight, cfgVars, callVars, prevFinRejected,
                   pindexPrev, minerLog>>

MinerInit ==
    /\ \E pool \in StartPools : InitialPool(pool) /\ unsafeTx = StartUnsafe \cap pool
    /\ tipHeight = 0
    /\ AssemblerOptions
    /\ scriptPubKeyIn \in PayoutScripts
    /\ nFortunePayment = MainFortunePayment
    /\ miner = "start"
    /\ pindexPrev = -1
    /\ hashPrevBlock = -1
    /\ scriptSigHeight = -1
    /\ nNonce = 0
    /\ minerLog = "none"
    /\ NoHeaderTime
    /\ nAdjustedTime = 2
    /\ SideIdle
    /\ NoCall

MinerNext ==
    \/ MinerStart
    \/ MinerCapturesTip
    \/ MinerCallsCreateNewBlock
    \/ LoopExhausted
    \/ SkipStaleEntry
    \/ FeeRateCutoff
    \/ CapacityFailure
    \/ FinalityFailure
    \/ CommitPackage
    \/ ComposeCoinbase
    \/ ComposeCoinbaseThrows
    \/ FinalValidation
    \/ MinerTakesTemplate
    \/ MinerCatchesError
    \/ HashStep
    \/ ProcessNewBlock
    \/ MinerPolls
    \/ TipAdvances

MinerSpec == MinerInit /\ [][MinerNext]_vars

\* the worker thread is scheduled again and again
MinerFairSpec ==
    MinerSpec /\ WF_vars(HashStep) /\ WF_vars(ProcessNewBlock) /\ WF_vars(MinerPolls)

(***************************************************************************)
(* The mining worker under a clock that moves                              *)
(***************************************************************************)
\* adjusted times the clock may show
ClockValues == 0..(MaxTip + 1)

\* the adjusted time changes, forwards or backwards, where the worker and
\* CreateNewBlock are about to read it
ClockTicks ==
    /\ \/ miner = "captured" /\ pc \in {"idle", "coinbase"}
       \/ miner = "poll"
    /\ \E t \in ClockValues : t # nAdjustedTime /\ nAdjustedTime' = t
    /\ UNCHANGED <<poolVars, unsafeTx, tipHeight, minerVars, nBlockMaxSize, blockMinFeeRate,
                   scriptPubKeyIn, nFortunePayment, sideVars, callVars, prevFinRejected>>

TimeInit ==
    /\ InitialPool({})
    /\ unsafeTx = {}
    /\ tipHeight = 0
    /\ nBlockMaxSize = ClampBlockMaxSize(4000)
    /\ blockMinFeeRate = 0
    /\ scriptPubKeyIn = reserveScript
    /\ nFortunePayment = MainFortunePayment
    /\ nAdjustedTime \in ClockValues
    /\ SideIdle
    /\ miner = "start"
    /\ pindexPrev = -1
    /\ hashPrevBlock = -1
    /\ scriptSigHeight = -1
    /\ nNonce = 0
    /\ minerLog = "none"
    /\ NoHeaderTime
    /\ NoCall

TimeNext ==
    \/ MinerStart
    \/ MinerCapturesTip
    \/ MinerCallsCreateNewBlock
    \/ LoopExhausted
    \/ ComposeCoinbase
    \/ ComposeCoinbaseThrows
    \/ FinalValidation
    \/ MinerTakesTemplate
    \/ MinerCatchesError
    \/ HashStep
    \/ ProcessNewBlock
    \/ MinerPolls
    \/ ClockTicks

TimeSpec == TimeInit /\ [][TimeNext]_vars

(***************************************************************************)
(* The node switching mining on and off                                    *)
(***************************************************************************)
GenInit ==
    /\ CoreIdle
    /\ tipHeight = 0
    /\ SideIdleBut("generate")
    /\ numCores \in CoreCounts
    /\ minerThreads = 0
    /\ threadGroups = <<>>
    /\ lastGenerate = NoGenerate

GenNext ==
    \/ GenerateCalled /\ CoreUnchanged /\ UNCHANGED tipHeight
           /\ SideUnchangedBut("generate")
    \/ MinerThreadInterrupted /\ CoreUnchanged /\ UNCHANGED tipHeight
           /\ SideUnchangedBut("generate")

GenSpec == GenInit /\ [][GenNext]_vars

(***************************************************************************)
(* Miner threads preparing blocks while the tip moves                      *)
(***************************************************************************)
NonceInit ==
    /\ CoreIdle
    /\ tipHeight = 0
    /\ SideIdleBut("nonce")
    /\ NonceIdle

\* a block is connected while the threads are between two templates
TipMoves ==
    /\ tipHeight < MaxTip
    /\ tipHeight' = tipHeight + 1
    /\ CoreUnchanged
    /\ UNCHANGED sideVars

NonceNext ==
    \/ \E t \in NonceThreads :
          ExtraNonceCompares(t) /\ CoreUnchanged /\ UNCHANGED tipHeight
             /\ SideUnchangedBut("nonce")
    \/ \E t \in NonceThreads :
          ExtraNonceUpdates(t) /\ CoreUnchanged /\ UNCHANGED tipHeight
             /\ SideUnchangedBut("nonce")
    \/ TipMoves

NonceSpec == NonceInit /\ [][NonceNext]_vars

(***************************************************************************)
(* A masternode banned and revived                                         *)
(***************************************************************************)
\* the state is a new one, or one read from the database with a penalty
BanInit ==
    /\ CoreIdle
    /\ tipHeight = 0
    /\ SideIdleBut("ban")
    /\ \E penalty \in PoSePenalties :
          mnState = [DefaultMNState EXCEPT !.nPoSePenalty = penalty]
    /\ lastBanCall = NoBanCall

BanNext ==
    \/ BanCalled /\ CoreUnchanged /\ UNCHANGED tipHeight /\ SideUnchangedBut("ban")
    \/ ReviveCalled /\ CoreUnchanged /\ UNCHANGED tipHeight /\ SideUnchangedBut("ban")

BanSpec == BanInit /\ [][BanNext]_vars

(***************************************************************************)
(* A state diff built and applied                                          *)
(***************************************************************************)
DiffInit ==
    /\ CoreIdle
    /\ tipHeight = 0
    /\ SideIdleBut("diff")
    /\ \E a, b \in SampleStates : diffStates = [a |-> a, b |-> b]
    /\ mnStateDiff = NoStateDiff
    /\ diffApplied = NotApplied

DiffNext ==
    \/ DiffBuilt /\ CoreUnchanged /\ UNCHANGED tipHeight /\ SideUnchangedBut("diff")
    \/ DiffAppliedTo /\ CoreUnchanged /\ UNCHANGED tipHeight /\ SideUnchangedBut("diff")

DiffSpec == DiffInit /\ [][DiffNext]_vars

(***************************************************************************)
(* The quorum parameters under calls of UpdateLLMQParams                   *)
(***************************************************************************)
LLMQInit ==
    /\ CoreIdle
    /\ tipHeight = 0
    /\ SideIdleBut("llmq")
    /\ networkID \in {"main", "test"}
    /\ llmqs = InitialLLMQs
    /\ lastCheckMnCount = 0
    /\ lastCheckHeight = 0
    /\ lastCheckedLowLLMQParams = FALSE
    /\ lastLLMQCall = NoLLMQCall

LLMQNext ==
    LLMQParamsUpdated /\ CoreUnchanged /\ UNCHANGED tipHeight /\ SideUnchangedBut("llmq")

LLMQSpec == LLMQInit /\ [][LLMQNext]_vars

(***************************************************************************)
(* The unique-property map under Add, Delete and Update                    *)
(***************************************************************************)
UniqueInit ==
    /\ CoreIdle
    /\ tipHeight = 0
    /\ SideIdleBut("unique")
    /\ mnUniquePropertyMap = EmptyPropertyMap
    /\ lastUniqueCall = NoUniqueCall

UniqueNext ==
    \/ AddCalled /\ CoreUnchanged /\ UNCHANGED tipHeight /\ SideUnchangedBut("unique")
    \/ DeleteCalled /\ CoreUnchanged /\ UNCHANGED tipHeight /\ SideUnchangedBut("unique")
    \/ UpdateCalled /\ CoreUnchanged /\ UNCHANGED tipHeight /\ SideUnchangedBut("unique")

UniqueSpec == UniqueInit /\ [][UniqueNext]_vars

(***************************************************************************)
(* Properties                                                              *)
(***************************************************************************)
InCall == pc \in {"select", "coinbase", "validate", "done"}
Rejected == capRejected \cup finRejected
VoutSum == SeqSum([i \in 1..Len(vout) |-> vout[i].nValue])

\* C1: capacity invariant.  From resetBlock on, through the pre-inserted
\* commitments and after every step of the selection loop, nBlockSize is
\* strictly below nBlockMaxSize and nBlockSigOps strictly below the maximum
\* block sigop count.
CapacityInvariant ==
    InCall => nBlockSize < nBlockMaxSize /\ nBlockSigOps < MaxBlockSigOps

\* C2: no duplicate commitment.  No entry is in inBlock and in mapModifiedTx
\* at once, and no entry is appended to the block twice in one call.
NoDuplicateCommitment ==
    /\ inBlock \cap DOMAIN mapModifiedTx = {}
    /\ \A i, j \in 1..Len(vtx) : (i # j /\ vtx[i] > 0) => vtx[i] # vtx[j]
    /\ InCall => inBlock = {vtx[i] : i \in 1..Len(vtx)} \ ({0} \cup {-k : k \in 1..Len(vtx)})

NoDuplicateCommitmentWitness ==
    /\ pc = "select"
    /\ Cardinality(inBlock) >= 2
    /\ DOMAIN mapModifiedTx # {}
    /\ ~MiAtEnd
    /\ MiEntry \in inBlock

\* C3: ancestor ordering.  No transaction committed by the loop stands in
\* vtx before one of its in-pool ancestors that is in the block as well.
AncestorOrdering ==
    \A i, j \in 1..Len(vtx) :
        (i < j /\ vtx[i] > 0 /\ vtx[j] > 0)
            => vtx[j] \notin CalculateMemPoolAncestors(vtx[i])

AncestorOrderingWitness ==
    /\ pc = "done"
    /\ {1, 2, 3} \subseteq inBlock
    /\ \E i \in 1..Len(vtx) : vtx[i] = 3 /\ i > 3

\* C4: reward conservation.  At every height but 1 the coinbase outputs sum
\* to subsidy + nFees + nSpecialTxFees, and output 0 is not negative.
RewardConservation ==
    (pc \in {"validate", "done"} /\ nHeight # 1)
        => /\ VoutSum = GetBlockSubsidy(nHeight - 1) + nFees + nSpecialTxFees
           /\ vout[1].nValue >= 0

RewardConservationWitness ==
    /\ pc = "done"
    /\ nHeight # 1
    /\ nFees > 0
    /\ nSpecialTxFees > 0
    /\ Len(vout) = 3
    /\ vout[3].nValue > 0

\* C5: failure permanence.  A transaction whose package was rejected by the
\* capacity test or by the finality/safety test in this pass is not in the block.
FailurePermanence == Rejected \cap inBlock = {}

\* a rejected transaction whose parent and sibling were committed after it failed
FailurePermanenceWitness ==
    /\ pc = "done"
    /\ 1 \in finRejected
    /\ 1 \in failedTx
    /\ {2, 3} \subseteq inBlock
    /\ capRejected # {}

\* the figures the loop would evaluate a remaining entry with
EffectiveEntry(t) ==
    IF t \in DOMAIN mapModifiedTx THEN mapModifiedTx[t] ELSE CTxMemPoolModifiedEntry(t)

\* C6 as stated: when the loop ends through the fee-rate cutoff, every mempool
\* transaction not selected into the block has an ancestor fee rate less than
\* or equal to the fee rate of the last package accepted.
CutoffBelowLastAccepted ==
    (exitReason = "cutoff" /\ inBlock # {})
        => \A t \in mempool \ inBlock :
               ~CompareTxMemPoolEntryByAncestorFee(CTxMemPoolModifiedEntry(t), lastAccepted)

\* C6, amended: when the loop ends through the fee-rate cutoff, the package
\* that triggered it is below the minimum fee rate, and every mempool
\* transaction neither selected nor rejected earlier in the pass has a
\* package fee rate (its tracker figures if it is tracked, its mempool
\* ancestor figures otherwise) less than or equal to that package's.
CutoffBelowTriggeringPackage ==
    exitReason = "cutoff"
        => /\ cutoffEntry.nModFeesWithAncestors
                  < FeeRateGetFee(blockMinFeeRate, cutoffEntry.nSizeWithAncestors)
           /\ \A t \in mempool \ (inBlock \cup Rejected) :
                  ~CompareTxMemPoolEntryByAncestorFee(EffectiveEntry(t), cutoffEntry)

\* a cutoff after an acceptance and a rejection, leaving tracked and untracked entries
CutoffWitness ==
    /\ exitReason = "cutoff"
    /\ inBlock # {}
    /\ Rejected # {}
    /\ DOMAIN mapModifiedTx # {}
    /\ mempool \ (inBlock \cup Rejected \cup DOMAIN mapModifiedTx) # {}

\* the coinbase outputs the swapAddresses table asks for
SwapOutputs ==
    [i \in 1..Len(swapAddresses) |->
        [nValue |-> swapAddresses[i].amount,
         scriptPubKey |-> GetScriptForDestination(swapAddresses[i].address)]]

\* C7 as stated: at height 1 the coinbase outputs of the template are exactly
\* one output per swapAddresses entry with that entry's amount, and no other.
GenesisExactlySwapOutputs ==
    (pc \in {"validate", "done"} /\ nHeight = 1) => vout = SwapOutputs

\* C7, amended: at height 1 the coinbase outputs of the template are one
\* output per swapAddresses entry with that entry's amount, followed by one
\* output of value 0 to the default fortune address; subsidy and fees are
\* paid to no output.
GenesisSwapThenFortune ==
    (pc \in {"validate", "done"} /\ nHeight = 1)
        => vout = Append(SwapOutputs,
                         [nValue |-> 0,
                          scriptPubKey |-> GetScriptForDestination(DEFAULT_FORTUNE_ADDRESS)])

GenesisWitness ==
    /\ pc = "done"
    /\ nHeight = 1
    /\ nFees > 0
    /\ Len(vout) = Len(swapAddresses) + 1

\* C8: mempool frame.  No step of a CreateNewBlock call, rejections included,
\* changes the mempool's entries, their ancestor state or their order.
MempoolFrame ==
    [][(pc # "idle" \/ pc' # "idle") => UNCHANGED poolVars]_vars

MempoolFrameWitness ==
    /\ pc = "done"
    /\ capRejected # {}
    /\ finRejected # {}
    /\ inBlock # {}
    /\ Rejected \cup inBlock \subseteq mempool

\* C9: a transaction whose package failed the finality/safety test is not in
\* that call's template; the next call starts with inBlock, tracker and
\* failed set empty; and when that call's loop runs to exhaustion, every
\* transaction that failed finality in the previous call is committed unless
\* it was rejected again, on capacity or because its package is still not
\* final and safe.
FinalityFailedAbsent ==
    /\ finRejected \cap inBlock = {}
    /\ \A i \in 1..Len(vtx) : vtx[i] \notin finRejected
StartsFresh ==
    (pc = "idle" /\ pc' = "select")
        => inBlock' = {} /\ mapModifiedTx' = EmptyMap /\ failedTx' = {}
ReevaluatedNextCall ==
    (pc = "select" /\ pc' = "coinbase" /\ exitReason' = "exhausted")
        => \A t \in prevFinRejected :
               \/ t \in inBlock
               \/ t \in capRejected
               \/ /\ t \in finRejected
                  /\ (CalculateMemPoolAncestors(t) \cup {t}) \cap unsafeTx # {}
FinalityFailureNotSticky ==
    /\ [](FinalityFailedAbsent)
    /\ [][StartsFresh /\ ReevaluatedNextCall]_vars

FinalityFailureNotStickyWitness ==
    /\ pc = "done"
    /\ prevFinRejected \cap inBlock # {}
    /\ unsafeTx = {}

\* C10: a template reaches the caller only if TestBlockValidity accepted
\* the block.
NeverShipsInvalidBlock ==
    /\ pc = "done" => blockValid = "valid"
    /\ blockValid = "invalid" => pc = "error"

NeverShipsInvalidBlockWitness ==
    /\ pc = "error"
    /\ blockValid = "invalid"
    /\ Len(vtx) > 1

\* C11: retry after assembly failure.  Whenever CreateNewBlock aborts with an
\* assembly error, the mining worker does not stop: its next step takes it
\* back to the top of its loop, from where a new assembly cycle starts with
\* fresh state.
RetryAfterAssemblyFailure ==
    [][(miner = "captured" /\ pc = "error")
           => (miner' = "top" /\ pc' = "idle" /\ inBlock' = {} /\ failedTx' = {})]_vars

\* C12: stale-tip restart.  A poll of the search that finds the live tip
\* different from the tip captured for the current block discards the block
\* and goes back to the top of the loop without an error; the search reaches
\* a poll after at most NonceBatch nonces; and under a fair schedule of the
\* worker a stale tip leads to a new cycle.
StaleAtPoll ==
    (miner = "poll" /\ tipHeight' = tipHeight
         /\ (pindexPrev # tipHeight \/ hashPrevBlock # tipHeight))
        => /\ miner' = "top"
           /\ hashPrevBlock' = -1
           /\ minerLog' = minerLog
BatchBounded ==
    (miner = "search" /\ miner' = "search")
        => nNonce' \in {nNonce, nNonce + 1} /\ nNonce' < NonceBatch
TipReadOnce ==
    miner \in {"search", "poll"}
        => pindexPrev = hashPrevBlock /\ scriptSigHeight = hashPrevBlock + 1

\* neither entry has the strictly higher ancestor fee rate
SameAncestorFeeRate(a, b) ==
    /\ ~CompareTxMemPoolEntryByAncestorFee(a, b)
    /\ ~CompareTxMemPoolEntryByAncestorFee(b, a)

\* C14: tie-break.  When the head of the primary index and the best tracker
\* entry have the same ancestor fee rate, the step evaluates the primary-index
\* entry and advances mi, leaving the tracker entry where it is; a step
\* evaluates the tracker entry with mi not at the end only when the tracker
\* entry's fee rate is strictly higher.
TieAtHead ==
    /\ Evaluating
    /\ ~MiAtEnd
    /\ DOMAIN mapModifiedTx # {}
    /\ SameAncestorFeeRate(mapModifiedTx[ModBest], CTxMemPoolModifiedEntry(MiEntry))
TieBreak ==
    [][/\ TieAtHead
           => /\ mi' = mi + 1
              /\ ModBest \in DOMAIN mapModifiedTx'
              /\ inBlock' # inBlock => MiEntry \in inBlock'
              /\ Rejected' # Rejected => MiEntry \in Rejected'
              /\ cutoffEntry' # cutoffEntry => cutoffEntry' = CTxMemPoolModifiedEntry(MiEntry)
       /\ (Evaluating /\ ~MiAtEnd /\ mi' = mi)
           => /\ DOMAIN mapModifiedTx # {}
              /\ CompareTxMemPoolEntryByAncestorFee(mapModifiedTx[ModBest],
                                                    CTxMemPoolModifiedEntry(MiEntry))]_vars

\* D was committed from the primary index while Z, tracked at the same fee
\* rate since its parent Y went in, still waits in the tracker
TieBreakWitness ==
    /\ pc = "select"
    /\ {2, 5} \subseteq inBlock
    /\ 3 \in DOMAIN mapModifiedTx
    /\ SameAncestorFeeRate(mapModifiedTx[3], CTxMemPoolModifiedEntry(5))

\* C15: exclusive capacity boundary.  A candidate package that passed the
\* fee-rate test and whose size would bring nBlockSize to exactly
\* nBlockMaxSize, or whose sigops would bring nBlockSigOps to exactly the
\* sigop maximum, is rejected: nothing is committed in that step and the
\* candidate is counted as a capacity failure.
AtCapacityBoundary ==
    /\ Evaluating
    /\ ~BelowMinFee
    /\ \/ nBlockSize + PackageEntry.nSizeWithAncestors = nBlockMaxSize
       \/ nBlockSigOps + PackageEntry.nSigOpCountWithAncestors = MaxBlockSigOps
ExclusiveBoundary ==
    [][AtCapacityBoundary
           => /\ inBlock' = inBlock
              /\ vtx' = vtx
              /\ nBlockSize' = nBlockSize
              /\ nBlockSigOps' = nBlockSigOps
              /\ CandIter \in capRejected']_vars

\* Z, tracked alone after its parent went in, was rejected because its two
\* sigops would have made the count exactly the maximum; its size would fit
ExactSigOpsRejected ==
    /\ pc = "done"
    /\ 3 \in capRejected
    /\ 3 \in failedTx
    /\ nBlockSigOps + GetSigOpCount(3) = MaxBlockSigOps
    /\ nBlockSize + GetTxSize(3) < nBlockMaxSize

\* the same for the size: Z would have made nBlockSize exactly nBlockMaxSize
ExactSizeRejected ==
    /\ pc = "done"
    /\ 3 \in capRejected
    /\ 3 \in failedTx
    /\ nBlockSize + GetTxSize(3) = nBlockMaxSize
    /\ nBlockSigOps + GetSigOpCount(3) < MaxBlockSigOps

\* C16: package commit.  A step that commits a candidate commits, in that
\* step and before the candidate, every in-pool ancestor of it that was not
\* yet in the block, and nothing else; nFees grows by exactly the sum of the
\* isolated fees of the transactions appended.  With X (fee 1000), its
\* ancestor Y (fee 500) and a minimum fee rate of 0, Y then X are committed
\* and nFees is 1500.
CommitsWholePackage ==
    (pc = "select" /\ inBlock' # inBlock)
        => LET added == inBlock' \ inBlock
               old == Len(vtx)
               new == Len(vtx')
           IN  /\ inBlock \subseteq inBlock'
               /\ \E c \in added :
                     /\ added = (CalculateMemPoolAncestors(c) \ inBlock) \cup {c}
                     /\ vtx'[new] = c
               /\ new = old + Cardinality(added)
               /\ SubSeq(vtx', 1, old) = vtx
               /\ {vtx'[i] : i \in (old + 1)..new} = added
               /\ \A i, j \in (old + 1)..new :
                     i < j => vtx'[j] \notin CalculateMemPoolAncestors(vtx'[i])
               /\ nFees' = nFees + SetSum(added, [t \in added |-> GetFee(t)])
ScenarioYThenX ==
    (pc = "done" /\ mempool = {1, 2} /\ unsafeTx = {} /\ blockMinFeeRate = 0
         /\ nBlockMaxSize = 4000)
        => /\ Len(vtx) >= 3
           /\ SubSeq(vtx, Len(vtx) - 1, Len(vtx)) = <<2, 1>>
           /\ nFees = 1500
PackageCommit ==
    /\ [][CommitsWholePackage]_vars
    /\ [](ScenarioYThenX)

\* X and Y were committed as one package, Y first
PackageCommitWitness ==
    /\ pc = "select"
    /\ vtx = <<0, 2, 1>>
    /\ inBlock = {1, 2}
    /\ lastAccepted = CTxMemPoolModifiedEntry(1)
    /\ nFees = 1500
    /\ blockMinFeeRate = 0

\* the coinbase is composed and the height handed to the schedule is its start block
AtStartBlock ==
    /\ pc \in {"validate", "done"}
    /\ nHeight - 1 = nFortunePayment.startBlock

\* the coinbase outputs as FillBlockPayments can leave them
OutputsBeforeFortune ==
    {FillBlockPayments(InitialCoinbaseVout(nHeight, blockRewardWithSpecialtx),
                       normalBlockReward, nSpecialTxFees, hasPayee) : hasPayee \in BOOLEAN}

\* C17 as stated: at a height equal to the schedule's start block the
\* lucky-payment amount is 0 and no lucky-payment output is appended to the
\* coinbase.
NoFortuneOutputAtStartBlock ==
    AtStartBlock
        => /\ getFortunePaymentAmount(nFortunePayment, nHeight - 1, normalBlockReward) = 0
           /\ vout \in OutputsBeforeFortune

\* C17, amended: at a height equal to the schedule's start block the
\* lucky-payment amount is 0, and the coinbase still gets its lucky-payment
\* output: one output of value 0 to the lucky payee, appended after the other
\* outputs, whose values stay as they were.
ZeroFortuneOutputAtStartBlock ==
    AtStartBlock
        => /\ getFortunePaymentAmount(nFortunePayment, nHeight - 1, normalBlockReward) = 0
           /\ Len(vout) >= 2
           /\ vout[Len(vout)] =
                  [nValue |-> 0,
                   scriptPubKey |->
                       GetScriptForDestination(GetFortuneAddressByHeight(nHeight - 1))]
           /\ SubSeq(vout, 1, Len(vout) - 1) \in OutputsBeforeFortune

\* a template at the start block of a schedule that starts at height 2: the
\* miner's output, a smartnode output and the lucky output of value 0
ZeroFortuneOutputWitness ==
    /\ pc = "done"
    /\ nFortunePayment.startBlock = 2
    /\ nHeight = 3
    /\ scriptPubKeyIn = reserveScript
    /\ Len(vout) = 3
    /\ vout[1].scriptPubKey = reserveScript
    /\ vout[1].nValue > 0
    /\ vout[3].nValue = 0

\* C18: the remainder output (coinbase output 0) is never negative after the
\* payment layers have run; sub-payments that exceed the total reward make
\* the composition of the coinbase fail instead.
RemainderNeverNegative ==
    pc \in {"validate", "done"} => vout[1].nValue >= 0

\* C19: CreateNewBlock returns a null template when an assembly precondition
\* is unmet, such as no coinbase payout script being available: with an empty
\* payout script no template comes back.
NullWithoutPayoutScript ==
    scriptPubKeyIn = <<>> => pc # "done"

\* C20: template arrays stay index-aligned.  At every point of CreateNewBlock
\* and in the returned template, vTxFees, vSpecialTxFees and vTxSigOps are as
\* long as vtx; the entry of a mempool transaction holds its fee, special fee
\* and sigop count, the entry of a pre-inserted commitment holds 0, and the
\* coinbase entry at index 0 holds the placeholder -1 until the coinbase is
\* built, then -nFees, -nSpecialTxFees and the coinbase's sigop count.
TemplateArraysAligned ==
    pc \in {"select", "coinbase", "validate", "done", "error"}
        => /\ Len(vTxFees) = Len(vtx)
           /\ Len(vSpecialTxFees) = Len(vtx)
           /\ Len(vTxSigOps) = Len(vtx)
           /\ Len(vtx) >= 1
           /\ vtx[1] = 0
           /\ \A i \in 1..Len(vtx) :
                 /\ vtx[i] > 0
                     => /\ vTxFees[i] = GetFee(vtx[i])
                        /\ vSpecialTxFees[i] = GetSpecialTxFee(vtx[i])
                        /\ vTxSigOps[i] = GetSigOpCount(vtx[i])
                 /\ vtx[i] < 0
                     => vTxFees[i] = 0 /\ vSpecialTxFees[i] = 0 /\ vTxSigOps[i] = 0
                 /\ (vtx[i] = 0 /\ pc \in {"select", "coinbase"})
                     => vTxFees[i] = -1 /\ vSpecialTxFees[i] = -1 /\ vTxSigOps[i] = -1
                 /\ (vtx[i] = 0 /\ pc \in {"validate", "done"})
                     => /\ i = 1
                        /\ vTxFees[i] = -nFees
                        /\ vSpecialTxFees[i] = -nSpecialTxFees
                        /\ vTxSigOps[i] = GetLegacySigOpCount(vout)

\* a returned template with a commitment, a parent and child, and the
\* transaction that pays a special fee
TemplateArraysWitness ==
    /\ pc = "done"
    /\ Len(vtx) >= 5
    /\ vtx[2] = -1
    /\ {1, 2, 5} \subseteq inBlock
    /\ vSpecialTxFees[1] < 0
    /\ \E i \in 1..Len(vtx) : vSpecialTxFees[i] > 0

\* the figures a tracker entry of t should hold: the mempool's ancestor
\* figures of t less the isolated figures of its ancestors that are in inBlock
ExpectedTrackerEntry(t) ==
    LET inB == CalculateMemPoolAncestors(t) \cap inBlock
    IN  [nSizeWithAncestors |->
             mapTx[t].nSizeWithAncestors - SetSum(inB, [x \in inB |-> GetTxSize(x)]),
         nModFeesWithAncestors |->
             mapTx[t].nModFeesWithAncestors - SetSum(inB, [x \in inB |-> GetModifiedFee(x)]),
         nSigOpCountWithAncestors |->
             mapTx[t].nSigOpCountWithAncestors - SetSum(inB, [x \in inB |-> GetSigOpCount(x)])]

\* C21: tracker figures are correct.  At every step of addPackageTxs each
\* entry of mapModifiedTx holds its transaction's mempool ancestor figures
\* minus the isolated size, fee and sigops of exactly those of its ancestors
\* that are in inBlock.
TrackerFiguresCorrect ==
    pc = "select"
        => \A t \in DOMAIN mapModifiedTx : mapModifiedTx[t] = ExpectedTrackerEntry(t)


\* the entries of mapTx at or after the primary iterator
AheadOfMi == {ancestorScore[i] : i \in mi..Len(ancestorScore)}

\* no candidate left in mapTx or in the tracker beats the package e
NoneAbove(e) ==
    /\ \A t \in AheadOfMi :
           ~CompareTxMemPoolEntryByAncestorFee(CTxMemPoolModifiedEntry(t), e)
    /\ \A t \in DOMAIN mapModifiedTx :
           ~CompareTxMemPoolEntryByAncestorFee(mapModifiedTx[t], e)

\* C22: the fee-rate cutoff is a hard exit.  As soon as the selected package's
\* fee is below blockMinFeeRate applied to its size, addPackageTxs returns and
\* commits nothing more, and at that moment no candidate still ahead of the
\* primary iterator or still in the tracker has a higher package fee rate
\* than the package that triggered the cutoff.
CutoffHardExit ==
    [][/\ (Evaluating /\ BelowMinFee)
            => /\ NoneAbove(PackageEntry)
               /\ pc' = "coinbase"
               /\ exitReason' = "cutoff"
               /\ inBlock' = inBlock
               /\ nBlockTx' = nBlockTx
       /\ (exitReason = "cutoff" /\ pc # "idle")
            => /\ pc' # "select"
               /\ pc' # "idle" => (inBlock' = inBlock /\ nBlockTx' = nBlockTx)]_vars

\* the call is over after a cutoff that came after a commit and left a
\* candidate in the tracker
CutoffHardExitWitness ==
    /\ exitReason = "cutoff"
    /\ pc = "done"
    /\ inBlock # {}
    /\ DOMAIN mapModifiedTx # {}


\* C23: the consecutive-failure counter.  nConsecutiveFailed counts the
\* capacity-test rejections since the last commit or since the start of the
\* pass: it starts at 0, a capacity rejection adds one, a finality or safety
\* rejection leaves it as it is, a commit sets it to 0, and no other step of
\* the pass changes it.
ConsecutiveFailureCounter ==
    [][/\ (pc # "select" /\ pc' = "select") => nConsecutiveFailed' = 0
       /\ (pc = "select" /\ pc' # "idle") =>
            IF inBlock' # inBlock
              THEN nConsecutiveFailed' = 0
            ELSE IF capRejected' # capRejected \/ (Evaluating /\ ~BelowMinFee /\ ~PackageFits)
              THEN nConsecutiveFailed' = nConsecutiveFailed + 1
            ELSE nConsecutiveFailed' = nConsecutiveFailed]_vars

\* two capacity rejections with a commit between them, and a finality
\* rejection that left the counter standing
ConsecutiveFailureWitness ==
    /\ pc = "select"
    /\ inBlock # {}
    /\ finRejected # {}
    /\ nConsecutiveFailed >= 1
    /\ Cardinality(capRejected) > nConsecutiveFailed


\* the block is within 1000 bytes of nBlockMaxSize
CloseToFull == nBlockSize > nBlockMaxSize - 1000

\* the candidate under evaluation fails TestPackage
CapacityRejection == Evaluating /\ ~BelowMinFee /\ ~PackageFits

\* C24: the diminishing-returns abort.  The loop is abandoned through the
\* heuristic only by a capacity rejection that takes the consecutive-failure
\* counter above 1000 while nBlockSize is greater than nBlockMaxSize - 1000;
\* a capacity rejection at which either condition is false does not end the
\* loop.
DiminishingReturnsAbort ==
    [][/\ (exitReason # "abort" /\ exitReason' = "abort")
            => /\ CapacityRejection
               /\ nConsecutiveFailed' > 1000
               /\ CloseToFull
       /\ (CapacityRejection /\ ~(nConsecutiveFailed' > 1000 /\ CloseToFull))
            => pc' = "select" /\ exitReason' = exitReason]_vars

\* the loop was abandoned by the heuristic with candidates left
DiminishingReturnsWitness ==
    /\ exitReason = "abort"
    /\ nConsecutiveFailed = 1001
    /\ ~MiAtEnd

\* more than 1000 rejections in a row in a block with room: the loop goes on
ManyFailuresWithRoomWitness ==
    /\ pc = "select"
    /\ nConsecutiveFailed > 1000
    /\ ~CloseToFull


\* what is left for the loop to look at: mempool entries not in the block,
\* then index positions not yet passed plus tracker entries
LeftToCommit == Cardinality(mempool \ inBlock)
LeftToVisit == (Len(ancestorScore) + 1 - mi) + Cardinality(DOMAIN mapModifiedTx)

\* every iteration that stays in the loop commits something or, committing
\* nothing, passes an index position or drops a tracker entry
IterationProgress ==
    (pc = "select" /\ pc' = "select")
        => \/ LeftToCommit' < LeftToCommit
           \/ LeftToCommit' = LeftToCommit /\ LeftToVisit' < LeftToVisit

\* the loop ended by its own condition
EndedByExhaustion ==
    pc \in {"coinbase", "validate", "done", "error"} /\ exitReason \notin {"cutoff", "abort"}

\* C25: termination.  Whatever the mempool holds and however the capacity and
\* finality tests turn out, addPackageTxs terminates; and when it ends by
\* neither the fee-rate cutoff nor the diminishing-returns abort, the
\* primary-index iterator is exhausted and the tracker is empty.
AddPackageTxsTerminates ==
    /\ (pc = "select") ~> (pc # "select")
    /\ [][IterationProgress]_vars
    /\ [](EndedByExhaustion => (MiAtEnd /\ DOMAIN mapModifiedTx = {}))

\* the loop ran to exhaustion through a commit, a stale entry, a capacity
\* rejection and a finality rejection
AddPackageTxsTerminatesWitness ==
    /\ EndedByExhaustion
    /\ inBlock # {}
    /\ capRejected # {}
    /\ finRejected # {}
    /\ failedTx # {}


\* heights and rewards the schedule is evaluated at
ScheduleHeights == (0 - 1)..(MaxTip + 2)
ScheduleRewards == {0, 99, 5000}

\* the steps of fp that cover height h
CoveringSteps(fp, h) ==
    {i \in 1..Len(fp.rewardStructures) :
        \/ fp.rewardStructures[i].blockHeight = INT_MAX
        \/ h <= fp.rewardStructures[i].blockHeight}

\* the amount the schedule fp gives at height h for reward
ScheduledAmount(fp, h, reward) ==
    IF h <= fp.startBlock \/ CoveringSteps(fp, h) = {} THEN 0
    ELSE LET first == CHOOSE i \in CoveringSteps(fp, h) :
                          \A j \in CoveringSteps(fp, h) : i <= j
         IN  (reward * fp.rewardStructures[first].rewardPercentage) \div 100

\* C26: the lucky-payment amount schedule.  getFortunePaymentAmount(h, reward)
\* is 0 when h is at or before startBlock; otherwise it is
\* reward * percentage / 100, in integer division, of the first schedule
\* entry, in order, whose bound is INT_MAX or is at least h; and it is 0 when
\* no entry matches.  The lucky output of a composed coinbase carries that
\* amount for the height before the block's.
FortuneAmountSchedule ==
    /\ \A h \in ScheduleHeights, reward \in ScheduleRewards :
           getFortunePaymentAmount(nFortunePayment, h, reward)
               = ScheduledAmount(nFortunePayment, h, reward)
    /\ pc \in {"validate", "done"}
           => vout[Len(vout)].nValue
                  = ScheduledAmount(nFortunePayment, nHeight - 1, normalBlockReward)

\* a coinbase composed under the second step of a schedule of two steps
FortuneAmountWitness ==
    /\ pc = "validate"
    /\ Len(nFortunePayment.rewardStructures) = 2
    /\ nHeight - 1 > nFortunePayment.rewardStructures[1].blockHeight
    /\ nHeight - 1 > nFortunePayment.startBlock
    /\ CoveringSteps(nFortunePayment, nHeight - 1) = {2}
    /\ vout[Len(vout)].nValue > 0


\* heights the payee is asked for
PayeeHeights == (0 - 1)..(MaxTip + 2)

\* the payee of the lucky output of a block whose predecessor is at height h
LuckyPayee(h) ==
    IF h < 1 \/ h > tipHeight
    THEN "FkqwU8tUU6U41PuGTPUqy93hML4QtCDPDX"
    ELSE GetBlockCoinbaseMinerAddress(BlockHashXor(h) % h)

FortunePayeeMinerWitness ==
    /\ pc = "validate"
    /\ nHeight = 3
    /\ vout[Len(vout)].scriptPubKey = <<"P2PKH", GetBlockCoinbaseMinerAddress(1)>>


\* txNew.vout as FillFortunePayment finds it in CreateNewBlock
VoutBeforeFortune(hasPayee) ==
    FillBlockPayments(InitialCoinbaseVout(nHeight, blockRewardWithSpecialtx),
                      normalBlockReward, nSpecialTxFees, hasPayee)

\* after is before with one output appended, output 0 lowered by the value of
\* that output, and nothing else touched
FortuneLayerFrame(before, after) ==
    /\ Len(after) = Len(before) + 1
    /\ after[1].nValue = before[1].nValue - after[Len(after)].nValue
    /\ after[1].scriptPubKey = before[1].scriptPubKey
    /\ \A i \in 2..Len(before) : after[i] = before[i]

\* C28: the lucky-payment layering frame.  A successful FillFortunePayment
\* appends exactly one output, decreases the value of coinbase output 0 by
\* exactly the value of the appended output, and leaves the script of
\* output 0 and every other pre-existing output unchanged.
FortuneLayering ==
    [][(pc = "coinbase" /\ pc' = "validate")
          => \E hasPayee \in PayeeChoices :
                 FortuneLayerFrame(VoutBeforeFortune(hasPayee), vout')]_vars

\* a coinbase with a smartnode output between the miner's and a lucky output
\* that carries value
FortuneLayeringWitness ==
    /\ pc = "validate"
    /\ Len(vout) = 3
    /\ vout[2].nValue > 0
    /\ vout[3].nValue > 0


\* C29: recoverable auxiliary failure.  When the masternode-list merkle root
\* computation fails with the reject reason bad-protx-hash, CreateNewBlock
\* substitutes a null merkleRootMNList and continues assembling; when it
\* fails for any other reason, or the quorum merkle-root computation fails,
\* the call aborts with an error.
AuxiliaryFailureHandling ==
    /\ auxResult.mnList = "bad-protx-hash"
           => /\ merkleRootMNList = "null"
              /\ auxResult.quorums # "none"
              /\ (auxResult.quorums = "ok" /\ FortuneAddressValid)
                     => (pc \in {"validate", "done", "error"}
                         /\ (pc = "error" => blockValid = "invalid"))
    /\ auxResult.mnList = "other"
           => pc = "error" /\ auxResult.quorums = "none" /\ blockValid = "untested"
    /\ auxResult.quorums = "failed"
           => pc = "error" /\ blockValid = "untested"
    /\ pc \in {"validate", "done"}
           => auxResult.mnList \in {"ok", "bad-protx-hash"} /\ auxResult.quorums = "ok"

\* a template was returned although the masternode-list root could not be computed
RecoveredFromBadProTxWitness ==
    /\ pc = "done"
    /\ auxResult.mnList = "bad-protx-hash"
    /\ merkleRootMNList = "null"

\* the call threw because the quorum root failed after a recovered list failure
QuorumFailureAbortsWitness ==
    /\ pc = "error"
    /\ auxResult = [mnList |-> "bad-protx-hash", quorums |-> "failed"]


\* UpdateTime is called by this step: at the end of CreateNewBlock for the
\* block on top of nHeight - 1, or by the worker's poll when it searches on
UpdateTimeInCall == pc = "coinbase" /\ pc' = "validate"
UpdateTimeInPoll == miner = "poll" /\ miner' = "search"

\* what UpdateTime leaves in nTime: never less than before, and at least
\* max(median-time-past of prev + 1, adjusted time)
TimeUpdated(prev) ==
    /\ nTime' >= nTime
    /\ nTime' >= GetMedianTimePast(prev) + 1
    /\ nTime' >= nAdjustedTime

\* every call of UpdateTime keeps nTime monotonic and above both bounds
UpdateTimeMonotonic ==
    /\ UpdateTimeInCall => TimeUpdated(nHeight - 1)
    /\ UpdateTimeInPoll => TimeUpdated(pindexPrev)

\* the worker polls with the tip it captured and the clock stands still
PollReachesUpdateTime ==
    miner = "poll" /\ pindexPrev = tipHeight /\ nAdjustedTime' = nAdjustedTime

\* a negative value makes the worker leave the search and build a new block
NegativeRebuilds ==
    (PollReachesUpdateTime /\ UpdateTime(pindexPrev) < 0)
        => (miner' = "top" /\ nTime' >= nTime)

\* the adjusted time now is below one read earlier for this block
ClockRanBackwards == nAdjustedTime < nTimeSeen

MaskedClockWitness ==
    /\ miner = "poll"
    /\ pindexPrev = tipHeight
    /\ ClockRanBackwards
    /\ UpdateTime(pindexPrev) = 0


\* the step that hands the block to ProcessNewBlock
HandedToProcessNewBlock == miner = "found" /\ miner' = "poll"

\* a solution found on a tip that is no longer the active one is reported
\* stale by ProcessBlockFound and never reaches the handover
StaleReported ==
    (miner = "search" /\ hashPrevBlock # tipHeight /\ miner' # "search" /\ nNonce' = nNonce)
        => (miner' = "poll" /\ minerLog' = "generated block is stale" /\ tipHeight' = tipHeight)

\* C31: no stale submission.  Under every interleaving with chain-tip updates
\* a mined block is handed to ProcessNewBlock only if its hashPrevBlock is the
\* active tip at the moment of the handover, and a block found on an outdated
\* tip is reported stale and not submitted.
NoStaleSubmission ==
    [][(HandedToProcessNewBlock => hashPrevBlock = tipHeight) /\ StaleReported]_vars


\* every in-pool ancestor of every transaction in the block is in the block
AncestorClosed ==
    \A t \in inBlock : CalculateMemPoolAncestors(t) \subseteq inBlock

\* the transactions a commit step of addPackageTxs adds to the block
JustCommitted == inBlock' \ inBlock

\* none of their descendants was in the block before the commit
NoDescendantAlreadyIn ==
    \A t \in JustCommitted : CalculateDescendants(t) \cap inBlock = {}

\* C32: inBlock is ancestor-closed.  After every commit step every in-pool
\* ancestor of every transaction in inBlock is in inBlock as well, so no
\* descendant of a just-committed transaction is already in the block.
InBlockAncestorClosed ==
    /\ []AncestorClosed
    /\ [][(pc = "select" /\ JustCommitted # {}) =>
              (AncestorClosed' /\ NoDescendantAlreadyIn)]_vars

\* the whole chain P, C, G is in the block, P committed first and on its own
InBlockAncestorClosedWitness ==
    /\ pc = "select"
    /\ {8, 9, 10} \subseteq inBlock
    /\ vtx[2] = 8


\* heights, rewards and coinbases the two functions are compared on; the
\* coinbases have the miner's output and one more, paying the default address
\* or the miner of block 1 a value around 5 percent of 5000
AgreementHeights == 0..(MaxTip + 1)
AgreementRewards == {0, 99, 5000}
AgreementValues == {0, 249, 250, 251}
AgreementCoinbases ==
    {<< [nValue |-> 5000, scriptPubKey |-> reserveScript] >>}
        \cup {<< [nValue |-> 5000, scriptPubKey |-> reserveScript],
                 [nValue |-> v, scriptPubKey |-> GetScriptForDestination(a)] >> :
                  v \in AgreementValues,
                  a \in {DEFAULT_FORTUNE_ADDRESS, GetBlockCoinbaseMinerAddress(1)}}

\* the outputs of txvout that pay the payee derived for height at least the
\* lucky amount of height
PayingOutputs(txvout, height, blockReward) ==
    {o \in Range(txvout) :
        /\ o.scriptPubKey = <<"P2PKH", GetFortuneAddressByHeight(height)>>
        /\ ~(o.nValue < getFortunePaymentAmount(nFortunePayment, height, blockReward))}

\* C33: fill/validate agreement.  For every chain state, reward R and height
\* h, a coinbase to which FillFortunePayment(tx, h + 1, R) was applied is
\* accepted by IsBlockPayeeValid(tx, h, R) against the same chain state, and
\* IsBlockPayeeValid accepts exactly the transactions with an output paying
\* the derived payee script at least getFortunePaymentAmount(h, R).
FillValidateAgreement ==
    /\ pc \in {"validate", "done"} => IsBlockPayeeValid(vout, nHeight - 1, normalBlockReward)
    /\ \A h \in AgreementHeights, R \in AgreementRewards, tx \in AgreementCoinbases :
          IsValidDestination(GetFortuneAddressByHeight(h))
              => /\ IsBlockPayeeValid(FillFortunePayment(tx, h + 1, R), h, R)
                 /\ IsBlockPayeeValid(tx, h, R) <=> PayingOutputs(tx, h, R) # {}

\* block 3 is composed with a smartnode output and a lucky output that pays
\* the miner of block 1, and a sample coinbase that overpays the same miner
\* is accepted for the same height
FillValidateAgreementWitness ==
    /\ pc = "validate"
    /\ nHeight = 3
    /\ Len(vout) = 3
    /\ vout[3].nValue > 0
    /\ \E tx \in AgreementCoinbases :
          /\ tx[Len(tx)].nValue > getFortunePaymentAmount(nFortunePayment, 2, 5000)
          /\ IsBlockPayeeValid(tx, 2, 5000)


\* effective heights for which GetFortuneAddressByHeight derives a luckyHeight
DerivingHeights == 1..tipHeight

\* C34: the lucky height is a valid earlier height.  Whenever
\* GetFortuneAddressByHeight derives luckyHeight for an effective height in
\* 1..chain height, the modulus, the height of the block looked up, is at
\* least 1, so nothing is divided by zero, and 0 <= luckyHeight < effectiveHeight.
LuckyHeightEarlier ==
    /\ \A h \in DerivingHeights :
          /\ ChainActiveAt(h).nHeight >= 1
          /\ 0 <= luckyHeight(h)
          /\ luckyHeight(h) < h
    /\ (pc \in {"validate", "done"} /\ nHeight - 1 \in DerivingHeights)
           => vout[Len(vout)].scriptPubKey \in
                  {<<"P2PKH", GetBlockCoinbaseMinerAddress(l)>> : l \in 0..(nHeight - 2)}

\* block 3 is composed on a chain of height 2: the lucky height derived for
\* effective height 2 is 1, and the lucky output pays the miner of block 1
LuckyHeightEarlierWitness ==
    /\ pc = "validate"
    /\ tipHeight = 2
    /\ nHeight = 3
    /\ luckyHeight(2) = 1
    /\ vout[Len(vout)].scriptPubKey = <<"P2PKH", GetBlockCoinbaseMinerAddress(luckyHeight(2))>>


\* the thread groups that exist: created and not deleted
LiveGroups == {g \in 1..Len(threadGroups) : ~threadGroups[g].deleted}

\* C35: stopping and restarting mining.  After GenerateFortuneblocks returns
\* at most one miner thread group exists; a call with fGenerate false or
\* nThreads 0 interrupts the previous group and starts no thread; a call with
\* nThreads < 0 starts one thread per core; and every new start first
\* interrupts and discards the previous group.
OneMinerThreadGroup ==
    /\ Cardinality(LiveGroups) <= 1
    /\ LiveGroups = IF minerThreads = 0 THEN {} ELSE {minerThreads}
    /\ lastGenerate.called =>
          /\ lastGenerate.previous # 0 =>
                 /\ threadGroups[lastGenerate.previous].interrupted
                 /\ threadGroups[lastGenerate.previous].deleted
                 /\ minerThreads # lastGenerate.previous
          /\ (~lastGenerate.fGenerate \/ lastGenerate.nThreads = 0) =>
                 /\ minerThreads = 0
                 /\ Len(threadGroups) = lastGenerate.previous
                        \/ threadGroups[Len(threadGroups)].deleted
          /\ (lastGenerate.fGenerate /\ lastGenerate.nThreads < 0) =>
                 /\ minerThreads = Len(threadGroups)
                 /\ threadGroups[minerThreads].created = numCores
          /\ (lastGenerate.fGenerate /\ lastGenerate.nThreads > 0) =>
                 /\ minerThreads = Len(threadGroups)
                 /\ threadGroups[minerThreads].created = lastGenerate.nThreads

\* mining was started with two threads, restarted with one thread per core of
\* a machine with three cores, and a thread of the first group has ended
OneMinerThreadGroupWitness ==
    /\ lastGenerate.called
    /\ lastGenerate.nThreads < 0
    /\ lastGenerate.previous = 1
    /\ minerThreads = 2
    /\ threadGroups[2].created = 3
    /\ threadGroups[1].created = 2
    /\ threadGroups[1].running = 1

\* mining was switched off while a group was running
MiningStoppedWitness ==
    /\ lastGenerate.called
    /\ ~lastGenerate.fGenerate
    /\ lastGenerate.previous # 0
    /\ minerThreads = 0


\* the last call of thread t was its first one on a block whose hashPrevBlock
\* differs from that of the thread's previous block
FirstOnNewTip(t) ==
    /\ lastNonceCall[t].called
    /\ lastNonceCall[t].prev # lastNonceCall[t].previous

\* C36: extra-nonce restart per new tip.  With any number of miner threads
\* interleaving, the first IncrementExtraNonce call of a thread on a block
\* whose hashPrevBlock differs from that of the thread's previous block resets
\* the thread's nExtraNonce to 0 before incrementing, so the thread's first
\* extra nonce on a new tip is 1.
ExtraNonceRestartsPerTip ==
    \A t \in NonceThreads : FirstOnNewTip(t) => lastNonceCall[t].nExtraNonce = 1


\* C37: the masternode ban state machine.  For any sequence of
\* BanIfNotBanned and Revive calls, IsBanned is true exactly when
\* nPoSeBanHeight differs from -1; BanIfNotBanned(h) leaves the ban height of
\* a banned state unchanged and sets that of an unbanned state to h, after
\* which IsBanned is true; Revive(r) clears the ban, sets the penalty to 0 and
\* records r as the revived height.
BanStateMachine ==
    /\ IsBanned(mnState) <=> mnState.nPoSeBanHeight # -1
    /\ lastBanCall.op = "ban" =>
          /\ IsBanned(lastBanCall.before) <=> lastBanCall.before.nPoSeBanHeight # -1
          /\ lastBanCall.before.nPoSeBanHeight # -1
                 => mnState.nPoSeBanHeight = lastBanCall.before.nPoSeBanHeight
          /\ lastBanCall.before.nPoSeBanHeight = -1
                 => (mnState.nPoSeBanHeight = lastBanCall.height /\ IsBanned(mnState))
          /\ mnState.nPoSePenalty = lastBanCall.before.nPoSePenalty
          /\ mnState.nPoSeRevivedHeight = lastBanCall.before.nPoSeRevivedHeight
    /\ lastBanCall.op = "revive" =>
          /\ ~IsBanned(mnState)
          /\ mnState.nPoSeBanHeight = -1
          /\ mnState.nPoSePenalty = 0
          /\ mnState.nPoSeRevivedHeight = lastBanCall.height

\* a masternode that was revived and banned again is asked to be banned at
\* another height, and keeps the height of its ban
BanStateMachineWitness ==
    /\ lastBanCall.op = "ban"
    /\ IsBanned(lastBanCall.before)
    /\ lastBanCall.height # lastBanCall.before.nPoSeBanHeight
    /\ mnState.nPoSeBanHeight = lastBanCall.before.nPoSeBanHeight
    /\ mnState.nPoSeRevivedHeight # -1

\* a banned masternode with a penalty was revived
ReviveWitness ==
    /\ lastBanCall.op = "revive"
    /\ IsBanned(lastBanCall.before)
    /\ lastBanCall.before.nPoSePenalty > 0
    /\ mnState.nPoSePenalty = 0


\* C38: the state-diff round trip.  For all masternode states a and b,
\* applying CDeterministicMNStateDiff(a, b) to a copy of a gives a state equal
\* to b in every tracked field; the diff's bit of field f is set exactly when
\* a.f differs from b.f; and ApplyToState changes no field whose bit is clear.
StateDiffRoundTrip ==
    /\ mnStateDiff.built =>
          \A f \in StateFields :
              HasBit(mnStateDiff.fields, FieldBit(f)) <=> diffStates.a[f] # diffStates.b[f]
    /\ diffApplied.applied =>
          /\ diffApplied.before = diffStates.a => diffApplied.after = diffStates.b
          /\ \A f \in StateFields :
                 ~HasBit(mnStateDiff.fields, FieldBit(f))
                     => diffApplied.after[f] = diffApplied.before[f]

\* a and b differ in the voting key and the payout script and agree on a ban
\* height that is not the default; the diff applied to a copy of a gave b
StateDiffRoundTripWitness ==
    /\ diffApplied.applied
    /\ diffApplied.before = diffStates.a
    /\ diffApplied.after = diffStates.b
    /\ diffStates.a["keyIDVoting"] # diffStates.b["keyIDVoting"]
    /\ diffStates.a["scriptPayout"] # diffStates.b["scriptPayout"]
    /\ diffStates.a["addr"] = 1
    /\ diffStates.b["addr"] = 1
    /\ mnStateDiff.fields = 1024 + 4096


\* C39: LLMQ parameter switching is gated.  UpdateLLMQParams replaces the
\* quorum parameter set only when the given height is strictly greater than
\* the height of the last applied update, the masternode count or the
\* low-params flag differs from the last applied values, and the height is in
\* the mining window of none of the quorums configured at the call; otherwise
\* the parameters and the lastCheck bookkeeping stay unchanged, so the last
\* applied height strictly increases across updates.
InMiningWindow(name, height) ==
    LET p == LLMQParamsOf(name)
    IN  (height % p.dkgInterval) \in p.dkgMiningWindowStart..p.dkgMiningWindowEnd

LLMQGateOpen ==
    /\ lastLLMQCall.height > lastLLMQCall.lastCheckHeight
    /\ \/ lastLLMQCall.totalMnCount # lastLLMQCall.lastCheckMnCount
       \/ lastLLMQCall.lowLLMQParams # lastLLMQCall.lastCheckedLowLLMQParams
    /\ \A q \in DOMAIN lastLLMQCall.llmqs :
           ~InMiningWindow(lastLLMQCall.llmqs[q], lastLLMQCall.height)

LLMQBookkeeping == <<llmqs, lastCheckMnCount, lastCheckHeight, lastCheckedLowLLMQParams>>

LLMQBookkeepingBefore ==
    <<lastLLMQCall.llmqs, lastLLMQCall.lastCheckMnCount, lastLLMQCall.lastCheckHeight,
      lastLLMQCall.lastCheckedLowLLMQParams>>

LLMQUpdateGated ==
    lastLLMQCall.called =>
        IF LLMQGateOpen
        THEN /\ lastCheckMnCount = lastLLMQCall.totalMnCount
             /\ lastCheckedLowLLMQParams = lastLLMQCall.lowLLMQParams
             /\ lastCheckHeight = lastLLMQCall.height
             /\ lastCheckHeight > lastLLMQCall.lastCheckHeight
        ELSE LLMQBookkeeping = LLMQBookkeepingBefore

\* a third update went through at a height outside every window, after
\* updates at lower heights, and replaced the parameter sets
LLMQUpdateGatedWitness ==
    /\ lastLLMQCall.called
    /\ LLMQGateOpen
    /\ lastLLMQCall.lastCheckHeight = 4
    /\ lastLLMQCall.llmqs["LLMQ_50_60"] = "llmq10_60"
    /\ llmqs # lastLLMQCall.llmqs
    /\ lastCheckHeight = 24280

\* a call at a height inside a mining window, with a new masternode count,
\* left everything as it was
LLMQUpdateRefusedWitness ==
    /\ lastLLMQCall.called
    /\ lastLLMQCall.height > lastLLMQCall.lastCheckHeight
    /\ lastLLMQCall.totalMnCount # lastLLMQCall.lastCheckMnCount
    /\ lastLLMQCall.lastCheckHeight = 1
    /\ ~LLMQGateOpen
    /\ LLMQBookkeeping = LLMQBookkeepingBefore


\* C40: unique-property bookkeeping is all-or-nothing.  Whenever
\* AddUniqueProperty, DeleteUniqueProperty or UpdateUniqueProperty returns
\* false, mnUniquePropertyMap is unchanged; a successful Add followed by a
\* Delete of the same value for the same masternode restores the previous
\* map; and no property hash is ever owned by two different masternodes.
FailedCallChangesNothing ==
    (lastUniqueCall.op # "none" /\ ~lastUniqueCall.result)
        => mnUniquePropertyMap = lastUniqueCall.before

AddThenDeleteRestores ==
    (/\ lastUniqueCall.op = "add"
     /\ lastUniqueCall.result
     /\ lastUniqueCall'.op = "delete"
     /\ lastUniqueCall'.dmn = lastUniqueCall.dmn
     /\ lastUniqueCall'.v = lastUniqueCall.v)
        => (lastUniqueCall'.result /\ mnUniquePropertyMap' = lastUniqueCall.before)

OneOwnerPerHash ==
    \A h \in DOMAIN mnUniquePropertyMap :
        /\ mnUniquePropertyMap[h].first \in ProTxHashes
        /\ mnUniquePropertyMap[h].second >= 1
        /\ (h \in DOMAIN lastUniqueCall.before /\ lastUniqueCall.op = "add"
              /\ lastUniqueCall.result /\ lastUniqueCall.v = h)
               => mnUniquePropertyMap[h].first = lastUniqueCall.before[h].first

UniquePropertyAllOrNothing ==
    /\ [](FailedCallChangesNothing /\ OneOwnerPerHash)
    /\ [][AddThenDeleteRestores]_vars

====
